---- MODULE Spec2Model ----
(***************************************************************************)
(* A model of scripts/build_data.py: build_practices (validation, dedup,   *)
(* geocode resolution and the geocode cache) and write_areas_and_metrics   *)
(* (population roll-up, practice join, metrics and boundary features).     *)
(*                                                                         *)
(* Python strings are sequences of one-character strings, so that strip,   *)
(* upper, lower, startswith and the regular expressions are computed on    *)
(* the characters.  Python None is the value None for a string and <<>>    *)
(* for an optional float or an optional dict (Some(x) is <<x>>).           *)
(***************************************************************************)
EXTENDS Integers, Sequences, FiniteSets, TLC

\* ------------------------------------------------------------------ bounds

\* Rows of practices.csv read in one run of build_practices.
MaxRows == 3

\* ----------------------------------------------------------------- strings

None == <<"<None>">>

Spaces == {" ", "\t"}

Digits == {"0", "1", "2", "3", "4", "5", "6", "7", "8", "9"}

LowerLetters ==
  <<"a", "b", "c", "d", "e", "f", "g", "h", "i", "j", "k", "l", "m",
    "n", "o", "p", "q", "r", "s", "t", "u", "v", "w", "x", "y", "z">>

UpperLetters ==
  <<"A", "B", "C", "D", "E", "F", "G", "H", "I", "J", "K", "L", "M",
    "N", "O", "P", "Q", "R", "S", "T", "U", "V", "W", "X", "Y", "Z">>

IsUpper(c) == \E i \in 1..26 : UpperLetters[i] = c

IsLower(c) == \E i \in 1..26 : LowerLetters[i] = c

\* \w of the regular expressions, on the characters the model uses.
IsWord(c) == IsUpper(c) \/ IsLower(c) \/ c \in Digits \/ c = "_"

upper_char(c) ==
  IF IsLower(c) THEN UpperLetters[CHOOSE i \in 1..26 : LowerLetters[i] = c] ELSE c

lower_char(c) ==
  IF IsUpper(c) THEN LowerLetters[CHOOSE i \in 1..26 : UpperLetters[i] = c] ELSE c

upper(s) == [i \in 1..Len(s) |-> upper_char(s[i])]

lower(s) == [i \in 1..Len(s) |-> lower_char(s[i])]

RECURSIVE lstrip(_)
lstrip(s) == IF s # <<>> /\ Head(s) \in Spaces THEN lstrip(Tail(s)) ELSE s

RECURSIVE rstrip(_)
rstrip(s) ==
  IF s # <<>> /\ s[Len(s)] \in Spaces THEN rstrip(SubSeq(s, 1, Len(s) - 1)) ELSE s

strip(s) == rstrip(lstrip(s))

startswith(s, p) == Len(s) >= Len(p) /\ SubSeq(s, 1, Len(p)) = p

\* A Python value used as a condition: None and "" are false.
Truthy(s) == s # None /\ s # <<>>

\* ------------------------------------------------------ optional values

Some(x) == <<x>>

Nothing == <<>>

\* ------------------------------------------------------------ floats

\* float(s) on the coordinate strings of the model: the value in tenths of a
\* degree, or Nothing where Python raises ValueError.  Two spellings of one
\* number parse to the same value.
float(s) ==
  LET t == strip(s) IN
  IF t = <<"5", "1", ".", "5">> THEN Some(515)
  ELSE IF t = <<"5", "1", ".", "5", "0">> THEN Some(515)
  ELSE IF t = <<"-", "0", ".", "1">> THEN Some(-1)
  ELSE IF t = <<"-", ".", "1">> THEN Some(-1)
  ELSE IF t = <<"5", "2">> THEN Some(520)
  ELSE IF t = <<"5", "2", ".", "0">> THEN Some(520)
  ELSE Nothing

\* f"{x}" of a float: the shortest repr.
format_float(x) ==
  IF x = 515 THEN <<"5", "1", ".", "5">>
  ELSE IF x = -1 THEN <<"-", "0", ".", "1">>
  ELSE <<"5", "2", ".", "0">>

\* ------------------------------------------------------------ area codes

LSOA_NS == <<"L", "S", "O", "A", ":", ":">>

MSOA_NS == <<"M", "S", "O", "A", ":", ":">>

\* A normalisation that takes out the first whitespace character only.
normalize_postcode_first(postcode) ==
  LET text == upper(strip(postcode))
      at_space == {i \in 1..Len(text) : text[i] \in Spaces}
  IN IF at_space = {} THEN text
     ELSE LET i == CHOOSE i \in at_space : \A j \in at_space : i <= j
          IN SubSeq(text, 1, i - 1) \o SubSeq(text, i + 1, Len(text))

normalize_postcode(postcode) == SelectSeq(upper(strip(postcode)), LAMBDA c : c \notin Spaces)

\* ^[A-Z]{1,2}[0-9][A-Z0-9]?[0-9][A-Z]{2}$
POSTCODE_RE(s) ==
  \E k \in {1, 2}, o \in {0, 1} :
    /\ Len(s) = k + o + 4
    /\ \A j \in 1..k : IsUpper(s[j])
    /\ s[k + 1] \in Digits
    /\ o = 1 => (IsUpper(s[k + 2]) \/ s[k + 2] \in Digits)
    /\ s[k + o + 2] \in Digits
    /\ IsUpper(s[k + o + 3])
    /\ IsUpper(s[k + o + 4])

\* ^[EW]010\d{5}$
LSOA_CODE_RE(s) ==
  /\ Len(s) = 9
  /\ s[1] \in {"E", "W"}
  /\ SubSeq(s, 2, 4) = <<"0", "1", "0">>
  /\ \A j \in 5..9 : s[j] \in Digits

canonical_lsoa_area_code(value) ==
  IF ~Truthy(value) THEN None
  ELSE LET text == strip(value) IN
       IF text = <<>> THEN None
       ELSE LET code == IF startswith(text, LSOA_NS)
                        THEN strip(SubSeq(text, Len(LSOA_NS) + 1, Len(text)))
                        ELSE text
            IN IF LSOA_CODE_RE(code) THEN LSOA_NS \o code ELSE None

\* =================================================================
\* build_practices
\* =================================================================

VARIABLES
  pc,              \* where build_practices is: start, loop, done, aborted
  practices_raw,   \* the rows of practices.csv the loop has reached so far
  availability_raw,\* availability.csv keyed by practice_id
  lookup,          \* postcode_lookup.csv keyed by postcode
  disk,            \* the cache file data/cache/postcodes.json
  cache,           \* the in-memory geocode cache
  seen,            \* dedup keys met so far
  results,         \* the accepted practices
  warning_counts,  \* the warning-category tally
  warnings,        \* the warning strings
  live_log,        \* the live fetches made: postcode and response
  cache_reads,     \* calls of load_cache
  cache_writes     \* calls of save_cache

bpVars ==
  <<pc, practices_raw, availability_raw, lookup, disk, cache, seen, results,
    warning_counts, warnings, live_log, cache_reads, cache_writes>>

\* The state of write_areas_and_metrics.  A Python dict is a function here and,
\* where its insertion order is read, a sequence of its keys beside it.
VARIABLES
  am_pc,                \* start, population, practices, metrics, boundaries, done
  population_rows,      \* the rows of population.csv the loop has reached
  imd_rows,             \* imd.csv: area_code -> decile
  msoa_boundary_rows,   \* load_msoa_boundary_rows()
  practice_rows,        \* practices.csv as load_practice_lsoa_to_msoa_map reads it
  postcode_lsoa_cache,  \* load_postcode_lsoa_cache(): postcode -> msoa name
  lsoa_to_msoa_from_practices, \* load_practice_lsoa_to_msoa_map()
  lsoa_boundary_rows,   \* load_lsoa_boundary_rows(), once it is called
  lsoa_boundary_file,   \* the rows the fine boundary file holds at that point
  practices,            \* the practices the join loop has reached
  lsoa_to_msoa,         \* fine code -> coarse key
  msoa_names_by_key,    \* coarse key -> name
  msoa_population,      \* coarse key -> population sums
  msoa_order,           \* the keys of msoa_population, in insertion order
  msoa_imd_weighted,    \* coarse key -> weighted_sum, weight
  counts,               \* coarse key -> total, adults_yes, children_yes
  counts_order,         \* the keys of counts, in insertion order
  grouped,              \* coarse key -> coordinates of its geocoded practices
  metrics,              \* the metric records, in insertion order
  areas_features        \* the boundary features

amVars ==
  <<am_pc, population_rows, imd_rows, msoa_boundary_rows,
    practice_rows, postcode_lsoa_cache, lsoa_to_msoa_from_practices,
    lsoa_boundary_rows, lsoa_boundary_file, practices, lsoa_to_msoa,
    msoa_names_by_key, msoa_population, msoa_order, msoa_imd_weighted, counts,
    counts_order, grouped, metrics, areas_features>>

\* The state of build_qa, which reads the practices, the warning counts and
\* the warnings above.
VARIABLES
  qa_pc,                \* idle, start, done
  report                \* the report written to qa_report.json

qaVars == <<qa_pc, report>>

\* A postcode under repeated normalisation.
VARIABLES
  np_postcode,          \* the string first passed to normalize_postcode
  np_value,             \* the string after np_calls applications
  np_calls              \* the number of applications

npVars == <<np_postcode, np_value, np_calls>>

vars == <<bpVars, amVars, qaVars, npVars>>

\* A key a dict (a csv row, a cache entry) does not have.
Absent == <<"<absent>">>

EmptyDict == [lat |-> Absent, lon |-> Absent, area_code |-> Absent]

Categories ==
  {"deduplicated_practices", "missing_postcode", "invalid_postcode",
   "missing_availability", "geocode_failed"}

\* dict.get(k): Some(value) or Nothing (None).
get(d, k) == IF k \in DOMAIN d THEN Some(d[k]) ELSE Nothing

\* A cache, lookup or live result used as a condition: None and {} are false.
TruthyDict(o) == o # Nothing /\ o[1] # EmptyDict

\* ---------------------------------------------------------- input pools

S_AB12CD == <<"A", "B", "1", "2", "C", "D">>

S_E16AN == <<"E", "1", "6", "A", "N">>

S_E01000001 == <<"E", "0", "1", "0", "0", "0", "0", "0", "1">>

S_W01000002 == <<"W", "0", "1", "0", "0", "0", "0", "0", "2">>

S_Ely001A == <<"E", "l", "y", " ", "0", "0", "1", "A">>

S_515 == <<"5", "1", ".", "5">>

S_m01 == <<"-", "0", ".", "1">>

RowPool ==
  { \* a plain row: no source coordinates, no area hint
    [practice_id |-> <<"p", "1">>, practice_name |-> <<"D", "e", "n">>,
     postcode |-> <<"a", "b", "1", " ", "2", "c", "d">>,
     lat |-> <<>>, lon |-> <<>>, area_code |-> <<>>],
    \* the same name and postcode in another spelling
    [practice_id |-> <<"p", "2">>, practice_name |-> <<" ", "D", "E", "N">>,
     postcode |-> S_AB12CD,
     lat |-> S_515, lon |-> S_m01, area_code |-> <<>>],
    \* a blank postcode
    [practice_id |-> <<"p", "3">>, practice_name |-> <<"O", "a", "k">>,
     postcode |-> <<" ">>,
     lat |-> <<>>, lon |-> <<>>, area_code |-> <<>>],
    \* a postcode of the wrong format
    [practice_id |-> <<"p", "4">>, practice_name |-> <<"O", "a", "k">>,
     postcode |-> <<"X", "Y", "Z">>,
     lat |-> S_515, lon |-> S_m01, area_code |-> <<>>],
    \* source coordinates and a canonical area hint
    [practice_id |-> <<"p", "5">>, practice_name |-> <<"O", "a", "k">>,
     postcode |-> <<"E", "1", " ", "6", "A", "N">>,
     lat |-> <<"5", "1", ".", "5", "0">>, lon |-> S_m01,
     area_code |-> S_E01000001],
    \* a source latitude that is no number
    [practice_id |-> <<"p", "6">>, practice_name |-> <<"E", "l", "m">>,
     postcode |-> <<"A", "B", "1", " ", "2", "C", "D">>,
     lat |-> <<"x">>, lon |-> S_m01, area_code |-> <<>>],
    \* an id met before, an area hint that is no code, no coordinates
    [practice_id |-> <<" ", "p", "1">>, practice_name |-> <<"A", "s", "h">>,
     postcode |-> S_E16AN,
     lat |-> <<>>, lon |-> <<>>, area_code |-> <<"Q">>],
    \* source coordinates and no area hint
    [practice_id |-> <<"p", "8">>, practice_name |-> <<"F", "i", "r">>,
     postcode |-> <<"E", "1", " ", "6", "A", "N">>,
     lat |-> <<"5", "2">>, lon |-> <<"-", ".", "1">>, area_code |-> <<>>],
    \* a canonical area hint and no coordinates
    [practice_id |-> <<"p", "7">>, practice_name |-> <<"Y", "e", "w">>,
     postcode |-> S_AB12CD,
     lat |-> <<>>, lon |-> <<>>, area_code |-> <<" ">> \o S_E01000001] }

Yes == <<"y", "e", "s">>

No == <<"n", "o">>

Unknown == <<"u", "n", "k", "n", "o", "w", "n">>

AvailabilityPool ==
  { <<>>,
    [k \in {<<"p", "1">>, <<"p", "5">>, <<"p", "6">>} |->
       IF k = <<"p", "1">>
       THEN [accepting_adults |-> Yes, accepting_children |-> No]
       ELSE IF k = <<"p", "5">>
       THEN [accepting_adults |-> <<" ", "Y", "e", "s">>,
             accepting_children |-> <<"m", "a", "y", "b", "e">>]
       ELSE [accepting_adults |-> No, accepting_children |-> Unknown]] }

LookupPool ==
  { <<>>,
    [k \in {S_AB12CD} |->
       [lat |-> <<"5", "2", ".", "0">>, lon |-> S_m01, area_code |-> S_W01000002]] }

DiskPool ==
  { [state |-> "missing", data |-> <<>>],
    [state |-> "malformed", data |-> <<>>],
    [state |-> "ok",
     data |-> [k \in {S_AB12CD} |->
                 [lat |-> S_515, lon |-> S_m01, area_code |-> LSOA_NS \o S_E01000001]]],
    [state |-> "ok",
     data |-> [k \in {S_E16AN} |->
                 [lat |-> S_515, lon |-> S_m01, area_code |-> <<>>]]] }

\* What geocode_postcode_live can return: None (no result, or a caught
\* error), the coordinates with the lsoa field of the service (an area name),
\* or a result whose latitude is null (str(None)).
LiveResponses ==
  { Nothing,
    Some([lat |-> <<"5", "2", ".", "0">>, lon |-> S_m01, area_code |-> S_Ely001A]),
    Some([lat |-> <<"N", "o", "n", "e">>, lon |-> <<"N", "o", "n", "e">>,
          area_code |-> <<>>]) }

\* ------------------------------------------------------- the loop body

\* dedup_key comparing the name as written, case kept.
dedup_key_case_sensitive(row) ==
  <<strip(row.practice_name), normalize_postcode(row.postcode)>>

\* The dedup key of a row.
dedup_key(row) ==
  <<lower(strip(row.practice_name)), normalize_postcode(row.postcode)>>

\* row_fate without the check of the postcode format.
row_fate_any_format(row, seen_keys) ==
  IF dedup_key(row) \in seen_keys THEN "deduplicated_practices"
  ELSE IF normalize_postcode(row.postcode) = <<>> THEN "missing_postcode"
  ELSE "accepted"

\* What the loop does with a row before it looks anything up: the warning
\* category it is dropped under, or "accepted".
row_fate(row, seen_keys) ==
  IF dedup_key(row) \in seen_keys THEN "deduplicated_practices"
  ELSE IF normalize_postcode(row.postcode) = <<>> THEN "missing_postcode"
  ELSE IF ~POSTCODE_RE(normalize_postcode(row.postcode)) THEN "invalid_postcode"
  ELSE "accepted"

\* A missing availability row read as "not accepting".
DefaultAvailabilityNo == [accepting_adults |-> No, accepting_children |-> No]

DefaultAvailability == [accepting_adults |-> Unknown, accepting_children |-> Unknown]

\* availability_raw.get(practice_id), defaulted.
availability_for(practice_id) ==
  IF get(availability_raw, practice_id) = Nothing
  THEN DefaultAvailability
  ELSE get(availability_raw, practice_id)[1]

\* The try block on the row's own coordinates: Some([lat, lon]) when both are
\* non-empty and parse, Nothing otherwise (either empty, or ValueError).
source_coords(row) ==
  LET src_lat == strip(row.lat)
      src_lon == strip(row.lon)
  IN IF Truthy(src_lat) /\ Truthy(src_lon)
        /\ float(src_lat) # Nothing /\ float(src_lon) # Nothing
     THEN Some([lat |-> float(src_lat)[1], lon |-> float(src_lon)[1]])
     ELSE Nothing

\* x or y, on strings.
or_else(x, y) == IF Truthy(x) THEN x ELSE y

\* area_code = src_area_canonical or (src_area or None)
source_area(row) ==
  LET src_area == strip(row.area_code)
  IN or_else(canonical_lsoa_area_code(src_area), or_else(src_area, None))

\* first_geocode with the lookup table asked before the cache.
first_geocode_lookup_first(c, l, v) ==
  IF TruthyDict(l) THEN l ELSE IF TruthyDict(c) THEN c ELSE v

\* cache.get(p) or lookup.get(p) or geocode_postcode_live(p), given the three.
first_geocode(c, l, v) ==
  IF TruthyDict(c) THEN c ELSE IF TruthyDict(l) THEN l ELSE v

\* Python's "or" evaluates geocode_postcode_live only when both are false.
live_needed(c, l) == ~TruthyDict(c) /\ ~TruthyDict(l)

\* float(geocode["lat"]), float(geocode["lon"]): Nothing where either raises
\* (KeyError, ValueError).
geocode_coords(g) ==
  IF g.lat = Absent \/ g.lon = Absent
     \/ float(g.lat) = Nothing \/ float(g.lon) = Nothing
  THEN Nothing
  ELSE Some([lat |-> float(g.lat)[1], lon |-> float(g.lon)[1]])

\* The area of a resolved row with any hint of the row put first.
geocoded_area_hint_first(row, g) ==
  LET src_area == strip(row.area_code)
      geocode_area == strip(IF g.area_code = Absent THEN <<>> ELSE g.area_code)
  IN or_else(canonical_lsoa_area_code(src_area),
             or_else(src_area,
                     or_else(canonical_lsoa_area_code(geocode_area), None)))

\* area_code = src_area_canonical or geocode_area_canonical or (src_area or None)
geocoded_area(row, g) ==
  LET src_area == strip(row.area_code)
      geocode_area == strip(IF g.area_code = Absent THEN <<>> ELSE g.area_code)
  IN or_else(canonical_lsoa_area_code(src_area),
             or_else(canonical_lsoa_area_code(geocode_area),
                     or_else(src_area, None)))

\* The dict written to cache[postcode_norm].
cache_entry(lat, lon, area_code) ==
  [lat |-> format_float(lat), lon |-> format_float(lon),
   area_code |-> or_else(area_code, <<>>)]

\* d.setdefault(k, v): an entry already there is kept.
put_if_absent(d, k, v) == [x \in DOMAIN d \cup {k} |-> IF x \in DOMAIN d THEN d[x] ELSE v]

\* d[k] = v
put(d, k, v) == [x \in DOMAIN d \cup {k} |-> IF x = k THEN v ELSE d[x]]

\* The flag as the availability row spells it.
raw_flag(value) == value

\* availability.get(...).strip().lower()
normalize_flag(value) == lower(strip(value))

Practice(row, lat, lon, area_code, geocode_failed) ==
  [practice_id |-> strip(row.practice_id),
   practice_name |-> strip(row.practice_name),
   postcode_norm |-> normalize_postcode(row.postcode),
   lat |-> lat, lon |-> lon, area_code |-> area_code,
   geocode_failed |-> geocode_failed,
   accepting_adults |->
     normalize_flag(availability_for(strip(row.practice_id)).accepting_adults),
   accepting_children |->
     normalize_flag(availability_for(strip(row.practice_id)).accepting_children)]

bump(tally, category) == [tally EXCEPT ![category] = @ + 1]

\* warning_counts after the availability lookup of an accepted row.
after_availability(tally, row) ==
  IF get(availability_raw, strip(row.practice_id)) = Nothing
  THEN bump(tally, "missing_availability")
  ELSE tally

\* ------------------------------------------------------------- actions

BPInit ==
  /\ pc = "start"
  /\ practices_raw = <<>>
  /\ availability_raw \in AvailabilityPool
  /\ lookup \in LookupPool
  /\ disk \in DiskPool
  /\ cache = <<>>
  /\ seen = {}
  /\ results = <<>>
  /\ warning_counts = [c \in Categories |-> 0]
  /\ warnings = <<>>
  /\ live_log = <<>>
  /\ cache_reads = 0
  /\ cache_writes = 0

\* A load that raises on a missing cache file as on a malformed one.
LoadStrict ==
  /\ pc = "start"
  /\ UNCHANGED <<amVars, qaVars, npVars>>
  /\ cache_reads' = cache_reads + 1
  /\ pc' = IF disk.state = "ok" THEN "loop" ELSE "aborted"
  /\ cache' = IF disk.state = "ok" THEN disk.data ELSE <<>>
  /\ UNCHANGED <<practices_raw, availability_raw, lookup, disk, seen, results,
                 warning_counts, warnings, live_log, cache_writes>>

\* read_csv of the inputs, load_lookup and load_cache: a missing cache file is
\* an empty cache, a file that is not JSON raises out of build_practices.
Load ==
  /\ pc = "start"
  /\ UNCHANGED <<amVars, qaVars, npVars>>
  /\ cache_reads' = cache_reads + 1
  /\ pc' = IF disk.state = "malformed" THEN "aborted" ELSE "loop"
  /\ cache' = IF disk.state = "ok" THEN disk.data ELSE <<>>
  /\ UNCHANGED <<practices_raw, availability_raw, lookup, disk, seen, results,
                 warning_counts, warnings, live_log, cache_writes>>

\* The loop reaches one more row of practices.csv.
NextRow(row) ==
  /\ pc = "loop"
  /\ Len(practices_raw) < MaxRows
  /\ practices_raw' = Append(practices_raw, row)
  /\ UNCHANGED <<amVars, qaVars, npVars>>

\* A duplicate that is counted and also leaves a warning string.
RowDeduplicatedWarned(row) ==
  /\ NextRow(row)
  /\ row_fate(row, seen) = "deduplicated_practices"
  /\ warning_counts' = bump(warning_counts, "deduplicated_practices")
  /\ warnings' = Append(warnings, [practice_id |-> strip(row.practice_id),
                                   kind |-> "duplicate", detail |-> <<>>])
  /\ UNCHANGED <<pc, availability_raw, lookup, disk, cache, seen, results,
                 live_log, cache_reads, cache_writes>>

\* A row whose name and postcode were met before: counted, no warning string.
RowDeduplicated(row) ==
  /\ NextRow(row)
  /\ row_fate(row, seen) = "deduplicated_practices"
  /\ warning_counts' = bump(warning_counts, "deduplicated_practices")
  /\ UNCHANGED <<pc, availability_raw, lookup, disk, cache, seen, results,
                 warnings, live_log, cache_reads, cache_writes>>

RowMissingPostcode(row) ==
  /\ NextRow(row)
  /\ row_fate(row, seen) = "missing_postcode"
  /\ seen' = seen \cup {dedup_key(row)}
  /\ warning_counts' = bump(warning_counts, "missing_postcode")
  /\ warnings' = Append(warnings, [practice_id |-> strip(row.practice_id),
                                   kind |-> "missing postcode", detail |-> <<>>])
  /\ UNCHANGED <<pc, availability_raw, lookup, disk, cache, results,
                 live_log, cache_reads, cache_writes>>

RowInvalidPostcode(row) ==
  /\ NextRow(row)
  /\ row_fate(row, seen) = "invalid_postcode"
  /\ seen' = seen \cup {dedup_key(row)}
  /\ warning_counts' = bump(warning_counts, "invalid_postcode")
  /\ warnings' = Append(warnings, [practice_id |-> strip(row.practice_id),
                                   kind |-> "invalid postcode",
                                   detail |-> row.postcode])
  /\ UNCHANGED <<pc, availability_raw, lookup, disk, cache, results,
                 live_log, cache_reads, cache_writes>>

\* An accepted row whose own coordinates parse.
RowFromSource(row) ==
  /\ NextRow(row)
  /\ row_fate(row, seen) = "accepted"
  /\ source_coords(row) # Nothing
  /\ seen' = seen \cup {dedup_key(row)}
  /\ warning_counts' = after_availability(warning_counts, row)
  /\ LET xy == source_coords(row)[1]
         area_code == source_area(row)
     IN /\ cache' = put(cache, normalize_postcode(row.postcode),
                        cache_entry(xy.lat, xy.lon, area_code))
        /\ results' = Append(results, Practice(row, Some(xy.lat), Some(xy.lon),
                                               area_code, FALSE))
  /\ UNCHANGED <<pc, availability_raw, lookup, disk, warnings, live_log,
                 cache_reads, cache_writes>>

\* The live fetch, made only when cache and lookup give nothing.
fetch_live(postcode_norm, response) ==
  live_log' =
    IF live_needed(get(cache, postcode_norm), get(lookup, postcode_norm))
    THEN Append(live_log, [postcode |-> postcode_norm, response |-> response])
    ELSE live_log

\* geocode of the row, given the response a live fetch would get.
geocode_of(postcode_norm, response) ==
  first_geocode(get(cache, postcode_norm), get(lookup, postcode_norm), response)

\* An accepted row resolved from the cache, the lookup table or the live fetch.
RowGeocoded(row, response) ==
  /\ NextRow(row)
  /\ row_fate(row, seen) = "accepted"
  /\ source_coords(row) = Nothing
  /\ LET postcode_norm == normalize_postcode(row.postcode)
         geocode == geocode_of(postcode_norm, response)
     IN /\ TruthyDict(geocode)
        /\ geocode_coords(geocode[1]) # Nothing
        /\ fetch_live(postcode_norm, response)
        /\ LET xy == geocode_coords(geocode[1])[1]
               area_code == geocoded_area(row, geocode[1])
           IN /\ cache' = put(cache, postcode_norm,
                              cache_entry(xy.lat, xy.lon, area_code))
              /\ results' = Append(results,
                                   Practice(row, Some(xy.lat), Some(xy.lon),
                                            area_code, FALSE))
  /\ seen' = seen \cup {dedup_key(row)}
  /\ warning_counts' = after_availability(warning_counts, row)
  /\ UNCHANGED <<pc, availability_raw, lookup, disk, warnings,
                 cache_reads, cache_writes>>

\* RowGeocodeFailed with the row dropped after its warning.
RowGeocodeFailedDropped(row, response) ==
  /\ NextRow(row)
  /\ row_fate(row, seen) = "accepted"
  /\ source_coords(row) = Nothing
  /\ LET postcode_norm == normalize_postcode(row.postcode)
     IN /\ ~TruthyDict(geocode_of(postcode_norm, response))
        /\ fetch_live(postcode_norm, response)
        /\ warnings' = Append(warnings, [practice_id |-> strip(row.practice_id),
                                         kind |-> "geocode lookup failed",
                                         detail |-> postcode_norm])
  /\ seen' = seen \cup {dedup_key(row)}
  /\ warning_counts' =
       bump(after_availability(warning_counts, row), "geocode_failed")
  /\ UNCHANGED <<pc, availability_raw, lookup, disk, cache, results,
                 cache_reads, cache_writes>>

\* RowGeocodeFailed with the area hint of the row kept on the practice.
RowGeocodeFailedHinted(row, response) ==
  /\ NextRow(row)
  /\ row_fate(row, seen) = "accepted"
  /\ source_coords(row) = Nothing
  /\ LET postcode_norm == normalize_postcode(row.postcode)
     IN /\ ~TruthyDict(geocode_of(postcode_norm, response))
        /\ fetch_live(postcode_norm, response)
        /\ warnings' = Append(warnings, [practice_id |-> strip(row.practice_id),
                                         kind |-> "geocode lookup failed",
                                         detail |-> postcode_norm])
  /\ seen' = seen \cup {dedup_key(row)}
  /\ warning_counts' =
       bump(after_availability(warning_counts, row), "geocode_failed")
  /\ results' = Append(results, Practice(row, Nothing, Nothing, source_area(row), TRUE))
  /\ UNCHANGED <<pc, availability_raw, lookup, disk, cache,
                 cache_reads, cache_writes>>

\* An accepted row that nothing resolves.
RowGeocodeFailed(row, response) ==
  /\ NextRow(row)
  /\ row_fate(row, seen) = "accepted"
  /\ source_coords(row) = Nothing
  /\ LET postcode_norm == normalize_postcode(row.postcode)
     IN /\ ~TruthyDict(geocode_of(postcode_norm, response))
        /\ fetch_live(postcode_norm, response)
        /\ warnings' = Append(warnings, [practice_id |-> strip(row.practice_id),
                                         kind |-> "geocode lookup failed",
                                         detail |-> postcode_norm])
  /\ seen' = seen \cup {dedup_key(row)}
  /\ warning_counts' =
       bump(after_availability(warning_counts, row), "geocode_failed")
  /\ results' = Append(results, Practice(row, Nothing, Nothing, None, TRUE))
  /\ UNCHANGED <<pc, availability_raw, lookup, disk, cache,
                 cache_reads, cache_writes>>

\* An accepted row whose geocode has a latitude or longitude float() rejects:
\* the exception leaves the loop and build_practices.
RowRaises(row, response) ==
  /\ NextRow(row)
  /\ row_fate(row, seen) = "accepted"
  /\ source_coords(row) = Nothing
  /\ LET postcode_norm == normalize_postcode(row.postcode)
         geocode == geocode_of(postcode_norm, response)
     IN /\ TruthyDict(geocode)
        /\ geocode_coords(geocode[1]) = Nothing
        /\ fetch_live(postcode_norm, response)
  /\ seen' = seen \cup {dedup_key(row)}
  /\ warning_counts' = after_availability(warning_counts, row)
  /\ pc' = "aborted"
  /\ UNCHANGED <<availability_raw, lookup, disk, cache, results, warnings,
                 cache_reads, cache_writes>>

\* The file written by save_cache.
save_cache(c) == [state |-> "ok", data |-> c]

\* save_cache called inside the loop: the file is written and the loop goes on.
SaveInsideLoop ==
  /\ pc = "loop"
  /\ UNCHANGED <<amVars, qaVars, npVars>>
  /\ disk' = save_cache(cache)
  /\ cache_writes' = cache_writes + 1
  /\ UNCHANGED <<pc, practices_raw, availability_raw, lookup, cache, seen, results,
                 warning_counts, warnings, live_log, cache_reads>>

\* After the last row: save_cache(cache) and return.
Save ==
  /\ pc = "loop"
  /\ UNCHANGED <<amVars, qaVars, npVars>>
  /\ disk' = save_cache(cache)
  /\ cache_writes' = cache_writes + 1
  /\ pc' = "done"
  /\ UNCHANGED <<practices_raw, availability_raw, lookup, cache, seen, results,
                 warning_counts, warnings, live_log, cache_reads>>

BPNext ==
  \/ Load
  \/ \E row \in RowPool : RowDeduplicated(row)
  \/ \E row \in RowPool : RowMissingPostcode(row)
  \/ \E row \in RowPool : RowInvalidPostcode(row)
  \/ \E row \in RowPool : RowFromSource(row)
  \/ \E row \in RowPool, response \in LiveResponses : RowGeocoded(row, response)
  \/ \E row \in RowPool, response \in LiveResponses : RowGeocodeFailed(row, response)
  \/ \E row \in RowPool, response \in LiveResponses : RowRaises(row, response)
  \/ Save

\* write_areas_and_metrics not entered.
AMIdle ==
  /\ am_pc = "idle"
  /\ population_rows = <<>>
  /\ imd_rows = <<>>
  /\ msoa_boundary_rows = <<>>
  /\ practice_rows = <<>>
  /\ postcode_lsoa_cache = <<>>
  /\ lsoa_to_msoa_from_practices = <<>>
  /\ lsoa_boundary_rows = <<>>
  /\ lsoa_boundary_file = <<>>
  /\ practices = <<>>
  /\ lsoa_to_msoa = <<>>
  /\ msoa_names_by_key = <<>>
  /\ msoa_population = <<>>
  /\ msoa_order = <<>>
  /\ msoa_imd_weighted = <<>>
  /\ counts = <<>>
  /\ counts_order = <<>>
  /\ grouped = <<>>
  /\ metrics = <<>>
  /\ areas_features = <<>>

\* build_qa is not running.
QAIdle == qa_pc = "idle" /\ report = <<>>

NPIdle == np_postcode = <<>> /\ np_value = <<>> /\ np_calls = 0

Init == BPInit /\ AMIdle /\ QAIdle /\ NPIdle

\* build_practices alone.
Spec == Init /\ [][BPNext]_vars

\* =================================================================
\* Properties of build_practices
\* =================================================================

\* The key the claims dedup by: lowercased stripped name, normalized postcode.
ClaimKey(row) ==
  <<lower(strip(row.practice_name)), normalize_postcode(row.postcode)>>

PracticeKey(p) == <<lower(p.practice_name), p.postcode_norm>>

ValidPostcode(row) ==
  /\ normalize_postcode(row.postcode) # <<>>
  /\ POSTCODE_RE(normalize_postcode(row.postcode))

\* Row i is the first row with its key.
FirstOccurrence(i) ==
  \A j \in 1..(i - 1) : ClaimKey(practices_raw[j]) # ClaimKey(practices_raw[i])

\* No row met so far has the key of this row.
NewKey(row) ==
  \A j \in 1..Len(practices_raw) : ClaimKey(practices_raw[j]) # ClaimKey(row)

FirstIndex(k) ==
  CHOOSE i \in 1..Len(practices_raw) :
    /\ ClaimKey(practices_raw[i]) = k
    /\ FirstOccurrence(i)

AcceptedWithKey(k) == {n \in 1..Len(results) : PracticeKey(results[n]) = k}

BuiltFrom(p, row) ==
  /\ p.practice_id = strip(row.practice_id)
  /\ p.practice_name = strip(row.practice_name)
  /\ p.postcode_norm = normalize_postcode(row.postcode)

Last(s) == s[Len(s)]

\* C1 as stated: of two rows with the same key exactly one is in the accepted
\* list, the first.
C1_ExactlyOneAccepted ==
  pc # "aborted" =>
    \A i, j \in 1..Len(practices_raw) :
      (i < j /\ ClaimKey(practices_raw[i]) = ClaimKey(practices_raw[j])) =>
        /\ Cardinality(AcceptedWithKey(ClaimKey(practices_raw[i]))) = 1
        /\ \A n \in AcceptedWithKey(ClaimKey(practices_raw[i])) :
             BuiltFrom(results[n], practices_raw[FirstIndex(ClaimKey(practices_raw[i]))])

\* C1 (amended): of the rows with one dedup key none but the first is ever
\* accepted; the first is accepted exactly when its normalized postcode is
\* non-empty and well-formed; every later occurrence is dropped and adds one
\* to deduplicated_practices.
C1_FirstOccurrenceWins ==
  pc # "aborted" =>
    /\ \A i \in 1..Len(practices_raw) :
         LET k == ClaimKey(practices_raw[i])
             first == practices_raw[FirstIndex(k)]
         IN /\ Cardinality(AcceptedWithKey(k)) = IF ValidPostcode(first) THEN 1 ELSE 0
            /\ \A n \in AcceptedWithKey(k) : BuiltFrom(results[n], first)
    /\ warning_counts["deduplicated_practices"] =
         Len(practices_raw)
           - Cardinality({ClaimKey(practices_raw[i]) : i \in 1..Len(practices_raw)})

C1_Witness ==
  /\ pc = "done"
  /\ warning_counts["deduplicated_practices"] >= 1
  /\ \E i, j \in 1..Len(practices_raw) :
       /\ i < j
       /\ ClaimKey(practices_raw[i]) = ClaimKey(practices_raw[j])
       /\ practices_raw[i].practice_id # practices_raw[j].practice_id
       /\ \E n \in 1..Len(results) : BuiltFrom(results[n], practices_raw[i])

\* The rows among the first n that are the first of their key and have a
\* non-empty, well-formed normalized postcode, in input order.
RECURSIVE AcceptedRows(_)
AcceptedRows(n) ==
  IF n = 0 THEN <<>>
  ELSE IF FirstOccurrence(n) /\ ValidPostcode(practices_raw[n])
       THEN Append(AcceptedRows(n - 1), practices_raw[n])
       ELSE AcceptedRows(n - 1)

\* C2: when build_practices returns, the accepted list is, in input order,
\* exactly the first occurrences with a non-empty well-formed postcode,
\* whatever the availability rows and the geocode sources hold.
C2_AcceptedList ==
  pc # "aborted" =>
    LET expected == AcceptedRows(Len(practices_raw))
    IN /\ Len(results) = Len(expected)
       /\ \A n \in 1..Len(results) : BuiltFrom(results[n], expected[n])

C2_Witness ==
  /\ pc = "done"
  /\ Len(results) >= 2
  /\ Len(results) < Len(practices_raw)
  /\ \E n \in 1..Len(results) :
       /\ results[n].geocode_failed
       /\ results[n].practice_id \notin DOMAIN availability_raw

\* The loop has just accepted a row.
AcceptsRow == pc = "loop" /\ Len(results') = Len(results) + 1

\* The practice has the coordinates of the dict e.
CoordsFrom(p, e) ==
  /\ ~p.geocode_failed
  /\ p.lat = float(e.lat)
  /\ p.lon = float(e.lon)

\* C3: an accepted row takes its coordinates from the first of source
\* coordinates, cache, lookup table and live fetch that yields something,
\* and the live fetch is made exactly when the first three yield nothing.
C3_ResolutionOrder ==
  [][AcceptsRow =>
       LET row == Last(practices_raw')
           p == Last(results')
           c == get(cache, p.postcode_norm)
           l == get(lookup, p.postcode_norm)
       IN IF source_coords(row) # Nothing
          THEN /\ ~p.geocode_failed
               /\ p.lat = float(row.lat)
               /\ p.lon = float(row.lon)
               /\ live_log' = live_log
          ELSE IF TruthyDict(c)
          THEN CoordsFrom(p, c[1]) /\ live_log' = live_log
          ELSE IF TruthyDict(l)
          THEN CoordsFrom(p, l[1]) /\ live_log' = live_log
          ELSE /\ Len(live_log') = Len(live_log) + 1
               /\ SubSeq(live_log', 1, Len(live_log)) = live_log
               /\ Last(live_log').postcode = p.postcode_norm
               /\ IF TruthyDict(Last(live_log').response)
                  THEN CoordsFrom(p, Last(live_log').response[1])
                  ELSE p.geocode_failed /\ p.lat = Nothing /\ p.lon = Nothing
    ]_vars

C3_Witness ==
  /\ results # <<>>
  /\ live_log # <<>>
  /\ TruthyDict(Last(live_log).response)
  /\ Last(results).postcode_norm = Last(live_log).postcode
  /\ ~Last(results).geocode_failed
  /\ lookup # <<>>
  /\ cache # <<>>

\* C4: a row accepted with a resolved geocode sets the cache entry of its
\* normalized postcode to its latitude, longitude and area code (as the
\* strings the cache holds, None as ""), leaving the other entries; any other
\* row leaves the cache as it was.
C4_CacheWrite ==
  [][practices_raw' # practices_raw =>
       IF Len(results') = Len(results) + 1 /\ ~Last(results').geocode_failed
       THEN LET p == Last(results')
            IN /\ DOMAIN cache' = DOMAIN cache \cup {p.postcode_norm}
               /\ cache'[p.postcode_norm] =
                    [lat |-> format_float(p.lat[1]),
                     lon |-> format_float(p.lon[1]),
                     area_code |-> IF p.area_code = None THEN <<>> ELSE p.area_code]
               /\ \A k \in DOMAIN cache \ {p.postcode_norm} : cache'[k] = cache[k]
       ELSE cache' = cache
    ]_vars

C4_Witness ==
  /\ pc = "loop"
  /\ disk.state = "ok"
  /\ results # <<>>
  /\ \E k \in DOMAIN disk.data :
       /\ k \in DOMAIN cache
       /\ cache[k] # disk.data[k]
       /\ Last(results).postcode_norm = k

\* C5: load_cache runs once, before any row; save_cache runs at most once,
\* only as the loop ends and build_practices returns, never in a run that
\* raises; and no step but that write changes the cache file.
C5_CachePersistence ==
  [][/\ cache_writes' = cache_writes => disk' = disk
     /\ cache_writes' # cache_writes =>
          /\ cache_writes = 0 /\ cache_writes' = 1
          /\ pc = "loop" /\ pc' = "done"
          /\ practices_raw' = practices_raw
          /\ disk' = [state |-> "ok", data |-> cache]
     /\ cache_reads' # cache_reads =>
          /\ cache_reads = 0 /\ cache_reads' = 1
          /\ practices_raw = <<>> /\ cache_writes = 0
     /\ practices_raw' # practices_raw => cache_reads = 1 /\ cache_writes = 0
     /\ pc' = "done" => cache_writes' = 1
     /\ pc' = "aborted" => cache_writes' = 0
    ]_vars

C5_Witness ==
  /\ pc = "done"
  /\ cache_reads = 1
  /\ cache_writes = 1
  /\ Len(practices_raw) >= 2
  /\ results # <<>>
  /\ disk.data = cache
  /\ cache # <<>>

FailedPractices == {n \in 1..Len(results) : results[n].geocode_failed}

GeocodeWarnings ==
  {n \in 1..Len(warnings) : warnings[n].kind = "geocode lookup failed"}

\* C6: a first-occurrence row with a well-formed postcode that no source
\* resolves is accepted with geocode_failed and null latitude, longitude and
\* area code, adding one geocode_failed count and one warning string; and an
\* accepted practice whose geocode did not fail has a latitude and longitude.
C6_GeocodeFailure ==
  /\ [](/\ \A n \in 1..Len(results) :
             IF results[n].geocode_failed
             THEN /\ results[n].lat = Nothing
                  /\ results[n].lon = Nothing
                  /\ results[n].area_code = None
             ELSE results[n].lat # Nothing /\ results[n].lon # Nothing
        /\ warning_counts["geocode_failed"] = Cardinality(FailedPractices)
        /\ Cardinality(GeocodeWarnings) = Cardinality(FailedPractices))
  /\ [][(pc = "loop" /\ practices_raw' # practices_raw) =>
          LET row == Last(practices_raw')
              postcode_norm == normalize_postcode(row.postcode)
          IN (/\ NewKey(row)
              /\ ValidPostcode(row)
              /\ source_coords(row) = Nothing
              /\ ~TruthyDict(get(cache, postcode_norm))
              /\ ~TruthyDict(get(lookup, postcode_norm))
              /\ live_log' # live_log
              /\ ~TruthyDict(Last(live_log').response))
             => /\ Len(results') = Len(results) + 1
                /\ BuiltFrom(Last(results'), row)
                /\ Last(results').geocode_failed
                /\ warning_counts'["geocode_failed"] = warning_counts["geocode_failed"] + 1
                /\ Len(warnings') = Len(warnings) + 1
                /\ Last(warnings').kind = "geocode lookup failed"
                /\ Last(warnings').practice_id = strip(row.practice_id)
       ]_vars

C6_Witness ==
  /\ pc = "done"
  /\ \E n \in 1..Len(results), m \in 1..Len(results) :
       /\ results[n].geocode_failed
       /\ ~results[m].geocode_failed
  /\ live_log # <<>>
  /\ warning_counts["geocode_failed"] >= 1

\* C7: an accepted row whose practice id has no availability row gets both
\* flags "unknown" and adds exactly one to missing_availability; it is kept,
\* and the only warning string the row can add is the one of a failed geocode.
C7_MissingAvailability ==
  [][(/\ pc = "loop" /\ pc' = "loop"
      /\ practices_raw' # practices_raw
      /\ NewKey(Last(practices_raw'))
      /\ ValidPostcode(Last(practices_raw'))
      /\ strip(Last(practices_raw').practice_id) \notin DOMAIN availability_raw)
     => /\ Len(results') = Len(results) + 1
        /\ BuiltFrom(Last(results'), Last(practices_raw'))
        /\ Last(results').accepting_adults = Unknown
        /\ Last(results').accepting_children = Unknown
        /\ warning_counts'["missing_availability"] =
             warning_counts["missing_availability"] + 1
        /\ IF Last(results').geocode_failed
           THEN /\ Len(warnings') = Len(warnings) + 1
                /\ Last(warnings').kind = "geocode lookup failed"
           ELSE warnings' = warnings
    ]_vars

C7_Witness ==
  /\ pc = "done"
  /\ availability_raw # <<>>
  /\ warning_counts["missing_availability"] = 1
  /\ Len(results) >= 2
  /\ \E n \in 1..Len(results) :
       /\ results[n].practice_id \notin DOMAIN availability_raw
       /\ results[n].accepting_adults = Unknown
       /\ results[n].accepting_children = Unknown
       /\ ~results[n].geocode_failed

\* =================================================================
\* write_areas_and_metrics
\* =================================================================

\* Rows of population.csv read in one run.
MaxPopulationRows == 2

\* Practices passed to write_areas_and_metrics.
MaxPractices == 2

\* ------------------------------------------------------------- helpers

RECURSIVE digits_value(_)
digits_value(s) ==
  IF s = <<>> THEN 0
  ELSE 10 * digits_value(SubSeq(s, 1, Len(s) - 1))
       + (CHOOSE d \in 0..9 : <<"0", "1", "2", "3", "4", "5", "6", "7", "8", "9">>[d + 1] = s[Len(s)])

\* int(s): Some(value), or Nothing where Python raises ValueError.
int(s) ==
  LET t == strip(s) IN
  IF t # <<>> /\ \A j \in 1..Len(t) : t[j] \in Digits
  THEN Some(digits_value(t))
  ELSE IF Len(t) >= 2 /\ t[1] \in {"+", "-"} /\ \A j \in 2..Len(t) : t[j] \in Digits
  THEN Some((IF t[1] = "-" THEN -1 ELSE 1) * digits_value(Tail(t)))
  ELSE Nothing

\* A quotient cut down to an integer.
round_down(num, den) == num \div den

\* round(num / den) of Python 3: to the nearest integer, a tie to the even one.
round_half_even(num, den) ==
  LET q == num \div den
      r == num % den
  IN IF 2 * r < den THEN q
     ELSE IF 2 * r > den THEN q + 1
     ELSE IF q % 2 = 0 THEN q ELSE q + 1

\* d.get(k) of a dict of strings: the string, or None.
get_str(d, k) == IF k \in DOMAIN d THEN d[k] ELSE None

lsoa_code_from_area(area_code) ==
  IF ~Truthy(area_code) THEN None
  ELSE LET value == strip(area_code)
           code == IF startswith(value, LSOA_NS)
                   THEN strip(SubSeq(value, Len(LSOA_NS) + 1, Len(value)))
                   ELSE value
       IN IF code # <<>> THEN code ELSE None

\* A scope test that admits every fine-area code.
is_any_lsoa_code(lsoa_code) == Truthy(lsoa_code)

is_england_lsoa_code(lsoa_code) == Truthy(lsoa_code) /\ startswith(lsoa_code, <<"E">>)

is_england_msoa_code(msoa_code) == Truthy(msoa_code) /\ startswith(msoa_code, <<"E">>)

\* A scope test that admits every coarse key.
is_any_msoa_key(msoa_key) == Truthy(msoa_key)

is_england_msoa_key(msoa_key) ==
  Truthy(msoa_key) /\ startswith(msoa_key, MSOA_NS \o <<"E">>)

msoa_key_from_name(msoa_name) == MSOA_NS \o msoa_name

msoa_key_from_code(msoa_code) == MSOA_NS \o msoa_code

\* ^(.*\b\d{3})[A-Z]$ on the stripped name; group 1, stripped.
derive_msoa_name_from_lsoa_name(lsoa_name) ==
  LET text == strip(lsoa_name)
      n == Len(text)
  IN IF text = <<>> THEN None
     ELSE IF /\ n >= 4
             /\ IsUpper(text[n])
             /\ \A j \in (n - 3)..(n - 1) : text[j] \in Digits
             /\ (n = 4 \/ ~IsWord(text[n - 4]))
          THEN strip(SubSeq(text, 1, n - 1))
          ELSE None

\* msoa_name_to_code.get(name_upper, ""): the dict comprehension keeps, for a
\* name of several boundary rows, the code of the last of them.
msoa_name_to_code(name_upper) ==
  LET named == {i \in 1..Len(msoa_boundary_rows) :
                  /\ strip(msoa_boundary_rows[i].msoa_name) # <<>>
                  /\ strip(msoa_boundary_rows[i].msoa_code) # <<>>
                  /\ upper(strip(msoa_boundary_rows[i].msoa_name)) = name_upper}
  IN IF named = {} THEN <<>>
     ELSE strip(msoa_boundary_rows[CHOOSE i \in named : \A j \in named : j <= i].msoa_code)

\* The coarse name of a population row: the practice-derived mapping, or else
\* the name heuristic.
msoa_name_of(row) ==
  or_else(get_str(lsoa_to_msoa_from_practices,
                  lsoa_code_from_area(strip(row.area_code))),
          derive_msoa_name_from_lsoa_name(strip(row.area_name)))

\* The key by name, whatever the boundary metadata holds.
msoa_key_by_name(row) == msoa_key_from_name(msoa_name_of(row))

\* The coarse key of a population row that has a coarse name.
msoa_key_of(row) ==
  LET msoa_code == msoa_name_to_code(upper(msoa_name_of(row)))
  IN IF Truthy(msoa_code)
     THEN msoa_key_from_code(msoa_code)
     ELSE msoa_key_from_name(msoa_name_of(row))

\* The row passes the three "continue" tests of the population loop.
population_row_admitted(row) ==
  /\ is_england_lsoa_code(lsoa_code_from_area(strip(row.area_code)))
  /\ Truthy(msoa_name_of(row))
  /\ is_england_msoa_key(msoa_key_of(row))

\* A decile used as a condition: None and 0 are false.
TruthyInt(o) == o # Nothing /\ o[1] # 0

\* imd_rows.get(lsoa_area) or imd_rows.get(lsoa_code)
\*   or imd_rows.get(f"LSOA::{lsoa_code}")
imd_value_of(row) ==
  LET lsoa_area == strip(row.area_code)
      lsoa_code == lsoa_code_from_area(lsoa_area)
  IN IF TruthyInt(get(imd_rows, lsoa_area)) THEN get(imd_rows, lsoa_area)
     ELSE IF TruthyInt(get(imd_rows, lsoa_code)) THEN get(imd_rows, lsoa_code)
     ELSE get(imd_rows, LSOA_NS \o lsoa_code)

ZeroPopulation ==
  [population_total |-> 0, population_adults |-> 0, population_children |-> 0]

ZeroWeight == [weighted_sum |-> 0, weight |-> 0]

ZeroCounts == [total |-> 0, adults_yes |-> 0, children_yes |-> 0]

\* defaultdict: d[k], the default where k is not a key.
at(d, k, default) == IF k \in DOMAIN d THEN d[k] ELSE default

\* The keys in insertion order after d[k] is touched.
touch(order, d, k) == IF k \in DOMAIN d THEN order ELSE Append(order, k)

\* The accumulators of the population loop.
PopulationAcc ==
  [lsoa_to_msoa |-> lsoa_to_msoa, msoa_names_by_key |-> msoa_names_by_key,
   msoa_population |-> msoa_population, msoa_order |-> msoa_order,
   msoa_imd_weighted |-> msoa_imd_weighted]

EmptyPopulationAcc ==
  [lsoa_to_msoa |-> <<>>, msoa_names_by_key |-> <<>>, msoa_population |-> <<>>,
   msoa_order |-> <<>>, msoa_imd_weighted |-> <<>>]

\* One iteration of "for row in population_rows".
population_step(a, row) ==
  IF ~population_row_admitted(row) THEN a
  ELSE
    LET lsoa_code == lsoa_code_from_area(strip(row.area_code))
        msoa_key == msoa_key_of(row)
        pop_total == int(row.population_total)[1]
        pop_adults == int(row.population_adults)[1]
        pop_children == int(row.population_children)[1]
        pop == at(a.msoa_population, msoa_key, ZeroPopulation)
        imd_value == imd_value_of(row)
        w == at(a.msoa_imd_weighted, msoa_key, ZeroWeight)
    IN [lsoa_to_msoa |-> put(a.lsoa_to_msoa, lsoa_code, msoa_key),
        msoa_names_by_key |-> put(a.msoa_names_by_key, msoa_key, msoa_name_of(row)),
        msoa_population |->
          put(a.msoa_population, msoa_key,
              [population_total |-> pop.population_total + pop_total,
               population_adults |-> pop.population_adults + pop_adults,
               population_children |-> pop.population_children + pop_children]),
        msoa_order |-> touch(a.msoa_order, a.msoa_population, msoa_key),
        msoa_imd_weighted |->
          IF imd_value # Nothing /\ pop_total > 0
          THEN put(a.msoa_imd_weighted, msoa_key,
                   [weighted_sum |-> w.weighted_sum + imd_value[1] * pop_total,
                    weight |-> w.weight + pop_total])
          ELSE a.msoa_imd_weighted]

\* The accumulators of the join loop.
JoinAcc == [counts |-> counts, counts_order |-> counts_order, grouped |-> grouped]

EmptyJoinAcc == [counts |-> <<>>, counts_order |-> <<>>, grouped |-> <<>>]

\* The practice passes the "continue" tests of the join loop.
practice_joined(fine_to_coarse, p) ==
  /\ is_england_lsoa_code(lsoa_code_from_area(p.area_code))
  /\ Truthy(get_str(fine_to_coarse, lsoa_code_from_area(p.area_code)))

\* A flag other than "no".
is_not_no(flag) == flag # No

\* p.accepting_adults == "yes", p.accepting_children == "yes"
is_yes(flag) == flag = Yes

\* One iteration of "for p in practices".
practice_step(c, fine_to_coarse, p) ==
  IF ~practice_joined(fine_to_coarse, p) THEN c
  ELSE
    LET msoa_key == get_str(fine_to_coarse, lsoa_code_from_area(p.area_code))
        n == at(c.counts, msoa_key, ZeroCounts)
    IN [counts |->
          put(c.counts, msoa_key,
              [total |-> n.total + 1,
               adults_yes |-> n.adults_yes + (IF is_yes(p.accepting_adults) THEN 1 ELSE 0),
               children_yes |->
                 n.children_yes + (IF is_yes(p.accepting_children) THEN 1 ELSE 0)]),
        counts_order |-> touch(c.counts_order, c.counts, msoa_key),
        grouped |->
          IF p.lat # Nothing /\ p.lon # Nothing /\ ~p.geocode_failed
          THEN put(c.grouped, msoa_key,
                   Append(at(c.grouped, msoa_key, <<>>), <<p.lat[1], p.lon[1]>>))
          ELSE c.grouped]

\* ---------------------------------------------------------- input pools

S_LSOA_E01000001 == LSOA_NS \o S_E01000001

S_E01000003 == <<"E", "0", "1", "0", "0", "0", "0", "0", "3">>

S_LSOA_W01000002 == LSOA_NS \o S_W01000002

S_E01000004 == <<"E", "0", "1", "0", "0", "0", "0", "0", "4">>

S_LSOA_E01000004 == LSOA_NS \o S_E01000004

S_E01000005 == <<"E", "0", "1", "0", "0", "0", "0", "0", "5">>

S_Ely001 == <<"E", "l", "y", " ", "0", "0", "1">>

S_Bow002 == <<"B", "o", "w", " ", "0", "0", "2">>

S_E02000001 == <<"E", "0", "2", "0", "0", "0", "0", "0", "1">>

S_E02000002 == <<"E", "0", "2", "0", "0", "0", "0", "0", "2">>

S_W02000009 == <<"W", "0", "2", "0", "0", "0", "0", "0", "9">>

\* Rows of population.csv.
PopulationPool ==
  { \* an in-scope fine area named by the suffix convention
    [area_code |-> S_LSOA_E01000001, area_name |-> S_Ely001A,
     population_total |-> <<"1", "0", "0">>, population_adults |-> <<"8", "0">>,
     population_children |-> <<"2", "0">>],
    \* the same coarse area, the fine code written without its namespace
    [area_code |-> S_E01000003, area_name |-> S_Ely001 \o <<"B">>,
     population_total |-> <<"3", "0", "0">>, population_adults |-> <<"2", "0", "0">>,
     population_children |-> <<"1", "0", "0">>],
    \* an out-of-scope fine area whose name derives an in-scope coarse name
    [area_code |-> S_LSOA_W01000002, area_name |-> S_Ely001 \o <<"C">>,
     population_total |-> <<"5", "0">>, population_adults |-> <<"4", "0">>,
     population_children |-> <<"1", "0">>],
    \* an in-scope fine area of no population whose coarse name starts with B
    [area_code |-> S_LSOA_E01000004, area_name |-> S_Bow002 \o <<"A">>,
     population_total |-> <<"0">>, population_adults |-> <<"0">>,
     population_children |-> <<"0">>],
    \* an in-scope fine area whose name carries no suffix
    [area_code |-> LSOA_NS \o S_E01000005, area_name |-> <<"E", "l", "y">>,
     population_total |-> <<"3", "0", "0">>, population_adults |-> <<"3", "0", "0">>,
     population_children |-> <<"0">>],
    \* the first fine area with larger counts
    [area_code |-> S_LSOA_E01000001, area_name |-> S_Ely001A,
     population_total |-> <<"1", "5", "0", "0">>,
     population_adults |-> <<"1", "0", "0", "0">>,
     population_children |-> <<"5", "0", "0">>],
    \* a population count that is not a number
    [area_code |-> S_LSOA_E01000001, area_name |-> S_Ely001A,
     population_total |-> <<"x">>, population_adults |-> <<"8", "0">>,
     population_children |-> <<"2", "0">>] }

\* imd.csv as the dict of line 456: one fine area under both spellings of its
\* code, one under the bare code only, one out of scope.
ImdPool ==
  { [k \in {S_LSOA_E01000001, S_E01000001, LSOA_NS \o S_E01000003,
            S_LSOA_W01000002, S_E01000005} |->
       IF k = S_LSOA_E01000001 THEN 2
       ELSE IF k = S_E01000001 THEN 4
       ELSE IF k = LSOA_NS \o S_E01000003 THEN 6
       ELSE IF k = S_LSOA_W01000002 THEN 9
       ELSE 3] }

\* The rows load_msoa_boundary_rows returns: no file; a coded in-scope area
\* and a coded out-of-scope one; a row with a name only and a coded one; one
\* coded area alone.
MsoaBoundaryPool ==
  { <<>>,
    << [msoa_code |-> S_E02000001, msoa_name |-> upper(S_Ely001), geometry |-> [source |-> "m1"]],
       [msoa_code |-> S_W02000009, msoa_name |-> S_Bow002, geometry |-> [source |-> "m2"]] >>,
    << [msoa_code |-> <<>>, msoa_name |-> lower(S_Ely001), geometry |-> [source |-> "m3"]],
       [msoa_code |-> S_E02000002, msoa_name |-> S_Bow002, geometry |-> [source |-> "m4"]] >>,
    << [msoa_code |-> S_E02000002, msoa_name |-> S_Bow002, geometry |-> [source |-> "m5"]] >> }

\* The keys of Counter(...) in the order of their first occurrence.
RECURSIVE counter_keys(_)
counter_keys(items) ==
  IF items = <<>> THEN <<>>
  ELSE LET before == counter_keys(SubSeq(items, 1, Len(items) - 1))
       IN IF \E i \in 1..Len(before) : before[i] = Last(items)
          THEN before ELSE Append(before, Last(items))

counter_count(items, k) == Cardinality({i \in 1..Len(items) : items[i] = k})

\* The key that was counted last among those of the greatest count.
most_common_last(items) ==
  LET keys == counter_keys(items)
      best == {i \in 1..Len(keys) :
                 \A j \in 1..Len(keys) :
                   counter_count(items, keys[j]) <= counter_count(items, keys[i])}
  IN keys[CHOOSE i \in best : \A j \in best : j <= i]

\* Counter(items).most_common(1)[0][0] of a list that is not empty: the
\* greatest count, the first of the keys that have it.
most_common_first(items) ==
  LET keys == counter_keys(items)
      best == {i \in 1..Len(keys) :
                 \A j \in 1..Len(keys) :
                   counter_count(items, keys[j]) <= counter_count(items, keys[i])}
  IN keys[CHOOSE i \in best : \A j \in best : i <= j]

\* The coarse name the postcode cache gives a practice row, or "".
cached_msoa_name(row, lsoa_cache) ==
  LET postcode_norm == normalize_postcode(row.postcode)
  IN IF postcode_norm \in DOMAIN lsoa_cache
     THEN strip(lsoa_cache[postcode_norm].msoa) ELSE <<>>

\* The row adds to a tally of load_practice_lsoa_to_msoa_map.
practice_row_counted(row, lsoa_cache) ==
  /\ normalize_postcode(row.postcode) # <<>>
  /\ cached_msoa_name(row, lsoa_cache) # <<>>
  /\ Truthy(lsoa_code_from_area(strip(row.area_code)))

\* load_practice_lsoa_to_msoa_map(), given practices.csv and the postcode
\* cache: for every fine code the most common coarse name of its rows.
load_practice_lsoa_to_msoa_map(rows, lsoa_cache) ==
  IF lsoa_cache = <<>> THEN <<>>
  ELSE LET counted == SelectSeq(rows, LAMBDA row : practice_row_counted(row, lsoa_cache))
           code(row) == lsoa_code_from_area(strip(row.area_code))
       IN [lsoa_code \in {code(counted[i]) : i \in 1..Len(counted)} |->
             LET of_code == SelectSeq(counted, LAMBDA row : code(row) = lsoa_code)
             IN most_common_first([i \in 1..Len(of_code) |->
                                     cached_msoa_name(of_code[i], lsoa_cache)])]

S_Esk002 == <<"E", "s", "k", " ", "0", "0", "2">>

\* What load_practice_lsoa_to_msoa_map reads: no postcode cache; a fine area
\* whose rows name one coarse area once and then another twice, beside rows
\* that are not counted (no postcode, no coarse name, no area code); a fine
\* area whose rows name two coarse areas once each.  The postcode cache holds
\* three postcodes with a coarse name and one without.
PracticeMapInputs ==
  LET S_N11AA == <<"N", "1", "1", "A", "A">>
      EskRow == [postcode |-> <<"a", "b", "1", " ", "2", "c", "d">>,
                 area_code |-> S_LSOA_E01000004]
      BowRow == [postcode |-> S_N11AA, area_code |-> S_E01000004]
      ElyRow == [postcode |-> S_E16AN, area_code |-> <<" ">> \o S_E01000005]
      PostcodeLsoaCache ==
        [k \in {S_E16AN, S_AB12CD, S_N11AA, <<"W", "1", "A">>} |->
           [msoa |-> IF k = S_E16AN THEN S_Ely001
                     ELSE IF k = S_AB12CD THEN S_Esk002
                     ELSE IF k = S_N11AA THEN <<" ">> \o S_Bow002
                     ELSE <<>>]]
  IN { [rows |-> <<BowRow, EskRow, ElyRow, EskRow>>, cache |-> <<>>],
       [rows |-> <<BowRow, EskRow,
                   [postcode |-> <<" ">>, area_code |-> S_E01000004],
                   [postcode |-> <<"W", "1", "A">>, area_code |-> S_E01000004],
                   [postcode |-> S_N11AA, area_code |-> LSOA_NS],
                   ElyRow, EskRow>>,
        cache |-> PostcodeLsoaCache],
       [rows |-> <<BowRow, EskRow, ElyRow>>, cache |-> PostcodeLsoaCache] }

\* The rows load_lsoa_boundary_rows returns: no file; an in-scope fine area
\* and an out-of-scope one of the same coarse name; a fine area of another
\* coarse name.  A geometry read from a file is an opaque value.
LsoaBoundaryPool ==
  { <<>>,
    << [lsoa_code |-> S_E01000004,
        lsoa_name |-> S_Bow002 \o <<"A">>, geometry |-> [source |-> "l3"]] >>,
    << [lsoa_code |-> S_E01000001, lsoa_name |-> S_Ely001A, geometry |-> [source |-> "l1"]],
       [lsoa_code |-> S_W01000002, lsoa_name |-> S_Ely001 \o <<"C">>,
        geometry |-> [source |-> "l2"]] >> }

\* Practices as build_practices returns them.
PracticePool ==
  { [practice_id |-> <<"p", "5">>, practice_name |-> <<"O", "a", "k">>,
     postcode_norm |-> S_E16AN, lat |-> Some(515), lon |-> Some(-1),
     area_code |-> S_LSOA_E01000001, geocode_failed |-> FALSE,
     accepting_adults |-> Yes, accepting_children |-> No],
    [practice_id |-> <<"p", "8">>, practice_name |-> <<"F", "i", "r">>,
     postcode_norm |-> S_E16AN, lat |-> Some(520), lon |-> Some(-1),
     area_code |-> S_LSOA_E01000001, geocode_failed |-> FALSE,
     accepting_adults |-> No, accepting_children |-> Yes],
    [practice_id |-> <<"p", "1">>, practice_name |-> <<"D", "e", "n">>,
     postcode_norm |-> S_AB12CD, lat |-> Some(520), lon |-> Some(-1),
     area_code |-> S_LSOA_W01000002, geocode_failed |-> FALSE,
     accepting_adults |-> Yes, accepting_children |-> Yes],
    [practice_id |-> <<"p", "6">>, practice_name |-> <<"E", "l", "m">>,
     postcode_norm |-> S_AB12CD, lat |-> Nothing, lon |-> Nothing,
     area_code |-> None, geocode_failed |-> TRUE,
     accepting_adults |-> No, accepting_children |-> Unknown],
    [practice_id |-> <<"p", "9">>, practice_name |-> <<"Y", "e", "w">>,
     postcode_norm |-> S_E16AN, lat |-> Some(515), lon |-> Some(-1),
     area_code |-> LSOA_NS \o S_E01000005, geocode_failed |-> FALSE,
     accepting_adults |-> <<"m", "a", "y", "b", "e">>, accepting_children |-> Yes] }

\* ------------------------------------------------------------- metrics

RECURSIVE replace_msoa_ns(_)
\* s.replace("MSOA::", "")
replace_msoa_ns(s) ==
  IF s = <<>> THEN <<>>
  ELSE IF startswith(s, MSOA_NS)
  THEN replace_msoa_ns(SubSeq(s, Len(MSOA_NS) + 1, Len(s)))
  ELSE <<s[1]>> \o replace_msoa_ns(Tail(s))

\* The rate cut off after the fourth decimal.
rate_truncated(count, population) ==
  IF population # 0 THEN (count * 100000000) \div population ELSE 0

\* round(count / population * 10000, 4) in units of 1e-4, or 0.0.
rate_per_10k(count, population) ==
  IF population # 0 THEN round_half_even(count * 100000000, population) ELSE 0

\* int(round(weighted_sum / weight)), or "unknown".
imd_decile_of(w) ==
  IF w.weight > 0 THEN Some(round_half_even(w.weighted_sum, w.weight)) ELSE Unknown

\* The record of the loop over msoa_population.
metric_of(msoa_key) ==
  LET pop == msoa_population[msoa_key]
      n == at(counts, msoa_key, ZeroCounts)
  IN [area_code |-> msoa_key,
      area_name |-> IF msoa_key \in DOMAIN msoa_names_by_key
                    THEN msoa_names_by_key[msoa_key]
                    ELSE replace_msoa_ns(msoa_key),
      population_total |-> pop.population_total,
      population_adults |-> pop.population_adults,
      population_children |-> pop.population_children,
      practice_count |-> n.total,
      accepting_adults_count |-> n.adults_yes,
      accepting_children_count |-> n.children_yes,
      practices_per_10k |-> rate_per_10k(n.total, pop.population_total),
      accepting_adults_per_10k_adults |->
        rate_per_10k(n.adults_yes, pop.population_adults),
      accepting_children_per_10k_children |->
        rate_per_10k(n.children_yes, pop.population_children),
      imd_decile |-> imd_decile_of(at(msoa_imd_weighted, msoa_key, ZeroWeight))]

\* The record of the loop over counts, for a key without population.
metric_of_counts(area_code) ==
  [area_code |-> area_code,
   area_name |-> replace_msoa_ns(area_code),
   population_total |-> 0, population_adults |-> 0, population_children |-> 0,
   practice_count |-> counts[area_code].total,
   accepting_adults_count |-> counts[area_code].adults_yes,
   accepting_children_count |-> counts[area_code].children_yes,
   practices_per_10k |-> 0,
   accepting_adults_per_10k_adults |-> 0,
   accepting_children_per_10k_children |-> 0,
   imd_decile |-> Unknown]

practice_only(area_code) ==
  area_code \notin DOMAIN msoa_population /\ is_england_msoa_key(area_code)

\* The metrics of the coarse areas that have a practice, and no others.
build_metrics_of_joined ==
  LET joined == SelectSeq(msoa_order, LAMBDA k : k \in DOMAIN counts)
  IN [i \in 1..Len(joined) |-> metric_of(joined[i])]

\* The metrics dict in insertion order.
build_metrics ==
  LET only == SelectSeq(counts_order, practice_only)
  IN [i \in 1..Len(msoa_order) |-> metric_of(msoa_order[i])]
     \o [i \in 1..Len(only) |-> metric_of_counts(only[i])]

\* ---------------------------------------------------------- boundaries

metric_keys(ms) == {ms[i].area_code : i \in 1..Len(ms)}

metric_at(ms, k) == ms[CHOOSE i \in 1..Len(ms) : ms[i].area_code = k]

\* metrics_by_name.get(name_upper): the key of the last metric of that name.
metrics_by_name(ms, name_upper) ==
  LET named == {i \in 1..Len(ms) : upper(strip(ms[i].area_name)) = name_upper}
  IN IF named = {} THEN None
     ELSE ms[CHOOSE i \in named : \A j \in named : j <= i].area_code

feature(id, ms, msoa_key, geometry) ==
  [id |-> id,
   area_code |-> msoa_key,
   area_name |-> metric_at(ms, msoa_key).area_name,
   imd_decile |-> metric_at(ms, msoa_key).imd_decile,
   geometry |-> geometry]

\* The metric a coarse boundary row is matched to, or None.
coarse_key(ms, row) ==
  LET msoa_code == strip(row.msoa_code)
      msoa_name == strip(row.msoa_name)
  IN IF msoa_code # <<>> /\ ~is_england_msoa_code(msoa_code) THEN None
     ELSE IF msoa_name = <<>> /\ msoa_code = <<>> THEN None
     ELSE IF msoa_code # <<>> /\ msoa_key_from_code(msoa_code) \in metric_keys(ms)
     THEN msoa_key_from_code(msoa_code)
     ELSE IF msoa_name # <<>>
     THEN LET k == or_else(metrics_by_name(ms, upper(msoa_name)),
                           msoa_key_from_name(msoa_name))
          IN IF k \in metric_keys(ms) THEN k ELSE None
     ELSE None

coarse_features(ms) ==
  LET matched == SelectSeq(msoa_boundary_rows, LAMBDA row : coarse_key(ms, row) # None)
  IN [i \in 1..Len(matched) |->
        feature(or_else(strip(matched[i].msoa_code), coarse_key(ms, matched[i])),
                ms, coarse_key(ms, matched[i]), matched[i].geometry)]

\* The metric a fine boundary row is matched to, or None.
fine_key(ms, row) ==
  LET msoa_name == derive_msoa_name_from_lsoa_name(strip(row.lsoa_name))
  IN IF ~Truthy(msoa_name) THEN None
     ELSE IF msoa_key_from_name(msoa_name) \in metric_keys(ms)
     THEN msoa_key_from_name(msoa_name)
     ELSE None

fine_features(ms, boundary_rows) ==
  LET matched == SelectSeq(boundary_rows, LAMBDA row : fine_key(ms, row) # None)
  IN [i \in 1..Len(matched) |->
        feature(or_else(matched[i].lsoa_code, fine_key(ms, matched[i])),
                ms, fine_key(ms, matched[i]), matched[i].geometry)]

\* Vertices of a synthetic polygon.
steps == 18

\* practice_centroids.get(area_code, (51.0 + i * 0.02, -1.0 - i * 0.02)) in
\* hundredths of a degree over den; i counts the metrics from 0.
center(area_code, i) ==
  IF area_code \in DOMAIN grouped
  THEN LET coords == grouped[area_code]
           sum_lat[j \in 0..Len(coords)] ==
             IF j = 0 THEN 0 ELSE sum_lat[j - 1] + coords[j][1]
           sum_lon[j \in 0..Len(coords)] ==
             IF j = 0 THEN 0 ELSE sum_lon[j - 1] + coords[j][2]
       IN [lat |-> 10 * sum_lat[Len(coords)], lon |-> 10 * sum_lon[Len(coords)],
           den |-> Len(coords)]
  ELSE [lat |-> 5100 + 2 * i, lon |-> -100 - 2 * i, den |-> 1]

\* The vertices around the center without the closing coordinate.
ring_open(c) == [j \in 1..steps |-> [center |-> c, step |-> j - 1]]

\* The ring: a vertex at each of the angles 2*pi*step/steps around the
\* center, then the first one again.
ring(c) ==
  LET coords == [j \in 1..steps |-> [center |-> c, step |-> j - 1]]
  IN Append(coords, coords[1])

\* A synthetic polygon for the first metric alone.
synthetic_features_first(ms) ==
  [i \in 1..(IF ms = <<>> THEN 0 ELSE 1) |->
     feature(ms[i].area_code, ms, ms[i].area_code,
             [type |-> "Polygon", coordinates |-> <<ring(center(ms[i].area_code, i - 1))>>])]

synthetic_features(ms) ==
  [i \in 1..Len(ms) |->
     feature(ms[i].area_code, ms, ms[i].area_code,
             [type |-> "Polygon", coordinates |-> <<ring(center(ms[i].area_code, i - 1))>>])]

\* The features of the source with a synthetic polygon for every metric.
build_features_mixed(ms, boundary_rows) ==
  (IF msoa_boundary_rows # <<>> THEN coarse_features(ms)
   ELSE fine_features(ms, boundary_rows)) \o synthetic_features(ms)

\* The fine boundaries filling in for the metrics no coarse boundary matches.
build_features_per_area(ms, boundary_rows) ==
  LET coarse == IF msoa_boundary_rows # <<>> THEN coarse_features(ms) ELSE <<>>
      fine == SelectSeq(fine_features(ms, boundary_rows),
                        LAMBDA f : \A i \in 1..Len(coarse) : coarse[i].area_code # f.area_code)
  IN IF coarse \o fine = <<>> THEN synthetic_features(ms) ELSE coarse \o fine

\* areas_features after the boundary branches and the fallback.
build_features(ms, boundary_rows) ==
  LET from_source == IF msoa_boundary_rows # <<>> THEN coarse_features(ms)
                     ELSE fine_features(ms, boundary_rows)
  IN IF from_source = <<>> THEN synthetic_features(ms) ELSE from_source

\* ------------------------------------------------------------- actions

\* build_practices is not running.
BPIdle ==
  /\ pc = "idle"
  /\ practices_raw = <<>>
  /\ availability_raw = <<>>
  /\ lookup = <<>>
  /\ disk = [state |-> "missing", data |-> <<>>]
  /\ cache = <<>>
  /\ seen = {}
  /\ results = <<>>
  /\ warning_counts = [c \in Categories |-> 0]
  /\ warnings = <<>>
  /\ live_log = <<>>
  /\ cache_reads = 0
  /\ cache_writes = 0

\* Lines 455-468: the files are read and the accumulators are empty.
AMInit ==
  /\ am_pc = "population"
  /\ population_rows = <<>>
  /\ imd_rows \in ImdPool
  /\ msoa_boundary_rows \in MsoaBoundaryPool
  /\ \E inputs \in PracticeMapInputs :
       /\ practice_rows = inputs.rows
       /\ postcode_lsoa_cache = inputs.cache
  /\ lsoa_to_msoa_from_practices =
       load_practice_lsoa_to_msoa_map(practice_rows, postcode_lsoa_cache)
  /\ lsoa_boundary_rows = <<>>
  /\ lsoa_boundary_file = <<>>
  /\ practices = <<>>
  /\ lsoa_to_msoa = <<>>
  /\ msoa_names_by_key = <<>>
  /\ msoa_population = <<>>
  /\ msoa_order = <<>>
  /\ msoa_imd_weighted = <<>>
  /\ counts = <<>>
  /\ counts_order = <<>>
  /\ grouped = <<>>
  /\ metrics = <<>>
  /\ areas_features = <<>>

\* The three counts of an admitted row are numbers.
population_parses(row) ==
  /\ int(row.population_total) # Nothing
  /\ int(row.population_adults) # Nothing
  /\ int(row.population_children) # Nothing

\* One iteration of the population loop.
PopulationRow(row) ==
  /\ am_pc = "population"
  /\ Len(population_rows) < MaxPopulationRows
  /\ population_row_admitted(row) => population_parses(row)
  /\ population_rows' = Append(population_rows, row)
  /\ LET a == population_step(PopulationAcc, row)
     IN /\ lsoa_to_msoa' = a.lsoa_to_msoa
        /\ msoa_names_by_key' = a.msoa_names_by_key
        /\ msoa_population' = a.msoa_population
        /\ msoa_order' = a.msoa_order
        /\ msoa_imd_weighted' = a.msoa_imd_weighted
  /\ UNCHANGED <<am_pc, imd_rows, msoa_boundary_rows, lsoa_to_msoa_from_practices,
                 practice_rows, postcode_lsoa_cache,
                 lsoa_boundary_rows, lsoa_boundary_file, practices, counts, counts_order, grouped,
                 metrics, areas_features>>
  /\ UNCHANGED <<bpVars, qaVars, npVars>>

\* int() raises ValueError on a count of an admitted row, after the row's
\* fine area was mapped: write_areas_and_metrics does not return.
PopulationRowRaises(row) ==
  /\ am_pc = "population"
  /\ Len(population_rows) < MaxPopulationRows
  /\ population_row_admitted(row)
  /\ ~population_parses(row)
  /\ population_rows' = Append(population_rows, row)
  /\ lsoa_to_msoa' =
       put(lsoa_to_msoa, lsoa_code_from_area(strip(row.area_code)), msoa_key_of(row))
  /\ msoa_names_by_key' = put(msoa_names_by_key, msoa_key_of(row), msoa_name_of(row))
  /\ am_pc' = "aborted"
  /\ UNCHANGED <<imd_rows, msoa_boundary_rows, lsoa_to_msoa_from_practices,
                 practice_rows, postcode_lsoa_cache,
                 lsoa_boundary_rows, lsoa_boundary_file, practices, msoa_population, msoa_order,
                 msoa_imd_weighted, counts, counts_order, grouped, metrics,
                 areas_features>>
  /\ UNCHANGED <<bpVars, qaVars, npVars>>

\* The population rows are exhausted.
PopulationDone ==
  /\ am_pc = "population"
  /\ am_pc' = "join"
  /\ UNCHANGED <<population_rows, imd_rows, msoa_boundary_rows,
                 lsoa_to_msoa_from_practices,
                 practice_rows, postcode_lsoa_cache,
                 lsoa_boundary_rows, lsoa_boundary_file, practices,
                 lsoa_to_msoa, msoa_names_by_key, msoa_population, msoa_order,
                 msoa_imd_weighted, counts, counts_order, grouped, metrics,
                 areas_features>>
  /\ UNCHANGED <<bpVars, qaVars, npVars>>

\* One iteration of the loop over the practices.
\* A join that falls back on the practice-derived mapping for a fine area
\* no population row has mapped.
JoinPracticeByMapping(p) ==
  /\ am_pc = "join"
  /\ Len(practices) < MaxPractices
  /\ practices' = Append(practices, p)
  /\ LET lsoa_code == lsoa_code_from_area(p.area_code)
         name == get_str(lsoa_to_msoa_from_practices, lsoa_code)
         fine_to_coarse ==
           IF lsoa_code \notin DOMAIN lsoa_to_msoa /\ Truthy(name)
           THEN put(lsoa_to_msoa, lsoa_code,
                    IF Truthy(msoa_name_to_code(upper(name)))
                    THEN msoa_key_from_code(msoa_name_to_code(upper(name)))
                    ELSE msoa_key_from_name(name))
           ELSE lsoa_to_msoa
         c == practice_step(JoinAcc, fine_to_coarse, p)
     IN /\ counts' = c.counts
        /\ counts_order' = c.counts_order
        /\ grouped' = c.grouped
  /\ UNCHANGED <<am_pc, population_rows, imd_rows, msoa_boundary_rows,
                 lsoa_to_msoa_from_practices,
                 practice_rows, postcode_lsoa_cache,
                 lsoa_boundary_rows, lsoa_boundary_file, lsoa_to_msoa,
                 msoa_names_by_key, msoa_population, msoa_order, msoa_imd_weighted,
                 metrics, areas_features>>
  /\ UNCHANGED <<bpVars, qaVars, npVars>>

JoinPractice(p) ==
  /\ am_pc = "join"
  /\ Len(practices) < MaxPractices
  /\ practices' = Append(practices, p)
  /\ LET c == practice_step(JoinAcc, lsoa_to_msoa, p)
     IN /\ counts' = c.counts
        /\ counts_order' = c.counts_order
        /\ grouped' = c.grouped
  /\ UNCHANGED <<am_pc, population_rows, imd_rows, msoa_boundary_rows,
                 lsoa_to_msoa_from_practices,
                 practice_rows, postcode_lsoa_cache,
                 lsoa_boundary_rows, lsoa_boundary_file, lsoa_to_msoa,
                 msoa_names_by_key, msoa_population, msoa_order, msoa_imd_weighted,
                 metrics, areas_features>>
  /\ UNCHANGED <<bpVars, qaVars, npVars>>

\* Lines 531-586: the metrics of every coarse area; reading counts[msoa_key]
\* of the defaultdict adds the key where it was missing.
BuildMetrics ==
  /\ am_pc = "join"
  /\ am_pc' = "boundaries"
  /\ metrics' = build_metrics
  /\ counts' = [k \in DOMAIN counts \cup DOMAIN msoa_population |->
                  at(counts, k, ZeroCounts)]
  /\ counts_order' =
       counts_order \o SelectSeq(msoa_order, LAMBDA k : k \notin DOMAIN counts)
  /\ UNCHANGED <<population_rows, imd_rows, msoa_boundary_rows,
                 lsoa_to_msoa_from_practices,
                 practice_rows, postcode_lsoa_cache,
                 lsoa_boundary_rows, lsoa_boundary_file, practices,
                 lsoa_to_msoa, msoa_names_by_key, msoa_population, msoa_order,
                 msoa_imd_weighted, grouped, areas_features>>
  /\ UNCHANGED <<bpVars, qaVars, npVars>>

\* Lines 588-679: the boundary features; the fine boundaries are loaded only
\* where there are no coarse ones.
EmitBoundaries(boundary_rows) ==
  /\ am_pc = "boundaries"
  /\ am_pc' = "done"
  /\ lsoa_boundary_file' = boundary_rows
  /\ lsoa_boundary_rows' = IF msoa_boundary_rows # <<>> THEN <<>> ELSE boundary_rows
  /\ areas_features' = build_features(metrics, boundary_rows)
  /\ UNCHANGED <<population_rows, imd_rows, msoa_boundary_rows,
                 lsoa_to_msoa_from_practices,
                 practice_rows, postcode_lsoa_cache, practices, lsoa_to_msoa,
                 msoa_names_by_key, msoa_population, msoa_order, msoa_imd_weighted,
                 counts, counts_order, grouped, metrics>>
  /\ UNCHANGED <<bpVars, qaVars, npVars>>

AMNext ==
  \/ \E row \in PopulationPool : PopulationRow(row)
  \/ \E row \in PopulationPool : PopulationRowRaises(row)
  \/ PopulationDone
  \/ \E p \in PracticePool : JoinPractice(p)
  \/ BuildMetrics
  \/ \E boundary_rows \in LsoaBoundaryPool : EmitBoundaries(boundary_rows)

InitAreas == BPIdle /\ AMInit /\ QAIdle /\ NPIdle

\* write_areas_and_metrics alone.
SpecAreas == InitAreas /\ [][AMNext]_vars

\* =================================================================
\* Properties of write_areas_and_metrics
\* =================================================================

Front(s) == SubSeq(s, 1, Len(s) - 1)

\* The fine-area code of an area key starts with the in-scope prefix.
InScopeFine(area_code) ==
  LET code == lsoa_code_from_area(area_code)
  IN code # None /\ code[1] = "E"

\* The coarse key starts with the in-scope prefix after its namespace.
InScopeCoarse(k) ==
  /\ Len(k) > Len(MSOA_NS)
  /\ SubSeq(k, 1, Len(MSOA_NS)) = MSOA_NS
  /\ k[Len(MSOA_NS) + 1] = "E"

RECURSIVE FoldPopulation(_)
\* The accumulators after the population loop over rows.
FoldPopulation(rows) ==
  IF rows = <<>> THEN EmptyPopulationAcc
  ELSE population_step(FoldPopulation(Front(rows)), Last(rows))

RECURSIVE FoldPractices(_, _)
\* The accumulators after the join loop over ps.
FoldPractices(fine_to_coarse, ps) ==
  IF ps = <<>> THEN EmptyJoinAcc
  ELSE practice_step(FoldPractices(fine_to_coarse, Front(ps)), fine_to_coarse, Last(ps))

InScopeRows == SelectSeq(population_rows, LAMBDA row : InScopeFine(row.area_code))

InScopePractices == SelectSeq(practices, LAMBDA p : InScopeFine(p.area_code))

MetricsBuilt == am_pc \in {"boundaries", "done"}

\* C8: the population totals, the deprivation weights and the practice and
\* accepting counts of every coarse area, and the metrics made of them, are
\* those of a run over the inputs with every row and practice removed whose
\* fine-area code does not start with 'E': such a code contributes nothing.
C8_ScopeFilter ==
  am_pc \in {"population", "join", "boundaries", "done"} =>
    LET a == FoldPopulation(InScopeRows)
        c == FoldPractices(a.lsoa_to_msoa, InScopePractices)
    IN /\ msoa_population = a.msoa_population
       /\ msoa_imd_weighted = a.msoa_imd_weighted
       /\ \A k \in DOMAIN counts \cup DOMAIN c.counts :
            at(counts, k, ZeroCounts) = at(c.counts, k, ZeroCounts)
       /\ MetricsBuilt =>
            /\ metric_keys(metrics) = DOMAIN a.msoa_population
            /\ \A i \in 1..Len(metrics) :
                 LET m == metrics[i]
                     pop == a.msoa_population[m.area_code]
                     n == at(c.counts, m.area_code, ZeroCounts)
                 IN /\ m.population_total = pop.population_total
                    /\ m.population_adults = pop.population_adults
                    /\ m.population_children = pop.population_children
                    /\ m.practice_count = n.total
                    /\ m.accepting_adults_count = n.adults_yes
                    /\ m.accepting_children_count = n.children_yes
                    /\ m.imd_decile =
                         imd_decile_of(at(a.msoa_imd_weighted, m.area_code, ZeroWeight))

\* An out-of-scope row and an out-of-scope practice were read beside an
\* in-scope row and an in-scope practice of the coarse area the former would
\* fall in, and the metric counts the in-scope ones alone.
C8_Witness ==
  /\ am_pc = "done"
  /\ \E i \in 1..Len(population_rows) :
       /\ population_rows[i].area_code = S_LSOA_W01000002
       /\ derive_msoa_name_from_lsoa_name(population_rows[i].area_name) = S_Ely001
  /\ \E i \in 1..Len(practices) : practices[i].area_code = S_LSOA_W01000002
  /\ \E i \in 1..Len(metrics) :
       /\ metrics[i].area_code = msoa_key_from_name(S_Ely001)
       /\ metrics[i].population_total = 100
       /\ metrics[i].practice_count = 1
       /\ metrics[i].imd_decile = Some(2)

\* A boundary row of the source that was read lies out of scope: its own
\* code does not start with 'E'.
OutOfScopeBoundaryCodes ==
  {strip(msoa_boundary_rows[j].msoa_code) : j \in 1..Len(msoa_boundary_rows)}
    \cup {lsoa_boundary_rows[j].lsoa_code : j \in 1..Len(lsoa_boundary_rows)}

FeatureOfOutOfScopeRow(f) ==
  \E code \in OutOfScopeBoundaryCodes :
    /\ code # <<>>
    /\ code[1] # "E"
    /\ f.id = code

KeysInScope ==
  MetricsBuilt => \A i \in 1..Len(metrics) : InScopeCoarse(metrics[i].area_code)

FeaturesCarryMetric ==
  am_pc = "done" =>
    \A i \in 1..Len(areas_features) :
      LET f == areas_features[i] IN
      /\ f.area_code \in metric_keys(metrics)
      /\ \E j \in 1..Len(metrics) :
           /\ metrics[j].area_code = f.area_code
           /\ metrics[j].area_name = f.area_name
           /\ metrics[j].imd_decile = f.imd_decile

\* C9, the part the code keeps: every key of the metrics map is an in-scope
\* coarse key, and every emitted feature has an area_code that is a key of
\* the metrics map and carries that metric's area_name and imd_decile.
C9_KeysAndProperties == KeysInScope /\ FeaturesCarryMetric

\* Coarse boundaries with an out-of-scope row were read, and the feature of
\* the in-scope row carries the decile of its metric.
C9_Witness ==
  /\ am_pc = "done"
  /\ \E j \in 1..Len(msoa_boundary_rows) : msoa_boundary_rows[j].msoa_code = S_W02000009
  /\ \E i \in 1..Len(areas_features) :
       /\ areas_features[i].id = S_E02000001
       /\ areas_features[i].area_code = msoa_key_from_code(S_E02000001)
       /\ areas_features[i].area_name = S_Ely001
       /\ areas_features[i].imd_decile = Some(2)

\* C9 as stated: besides the above, no feature is emitted for a boundary row
\* of an out-of-scope area, whichever source the rows come from.
C9_NoOutOfScopeBoundary ==
  /\ KeysInScope
  /\ FeaturesCarryMetric
  /\ am_pc = "done" =>
       \A i \in 1..Len(areas_features) : ~FeatureOfOutOfScopeRow(areas_features[i])

\* The row is aggregated into coarse area k.
AdmittedTo(row, k) == population_row_admitted(row) /\ msoa_key_of(row) = k

\* The spellings of the row's fine-area code a deprivation row can be keyed by.
ImdSpellings(row) ==
  LET lsoa_area == strip(row.area_code)
      lsoa_code == lsoa_code_from_area(lsoa_area)
  IN {lsoa_area, lsoa_code, LSOA_NS \o lsoa_code}

\* The rows read so far that are aggregated into k, have a deprivation value
\* and a population_total above 0.
WeightedRows(k) ==
  {i \in 1..Len(population_rows) :
     /\ AdmittedTo(population_rows[i], k)
     /\ ImdSpellings(population_rows[i]) \cap DOMAIN imd_rows # {}
     /\ int(population_rows[i].population_total)[1] > 0}

RECURSIVE SumOver(_, _)
\* The sum of f[i] over the indices in S.
SumOver(S, f) ==
  IF S = {} THEN 0
  ELSE LET i == CHOOSE j \in S : TRUE IN f[i] + SumOver(S \ {i}, f)

Abs(x) == IF x < 0 THEN -x ELSE x

\* C10: the imd_decile of each coarse area is an integer nearest to
\* (sum of decile * population_total) / (sum of population_total) over its
\* admitted rows that have a deprivation value and population_total > 0, and
\* it is "unknown", not a number, exactly when there is no such row.
C10_WeightedDecile ==
  MetricsBuilt =>
    \A m \in 1..Len(metrics) :
      LET k == metrics[m].area_code
          R == WeightedRows(k)
          total == [i \in R |-> int(population_rows[i].population_total)[1]]
          product == [i \in R |-> imd_value_of(population_rows[i])[1] * total[i]]
          weight == SumOver(R, total)
          weighted_sum == SumOver(R, product)
      IN /\ (R = {}) <=> (metrics[m].imd_decile = Unknown)
         /\ R # {} =>
              \E d \in 1..10 :
                /\ metrics[m].imd_decile = Some(d)
                /\ 2 * Abs(weighted_sum - d * weight) <= weight

\* Rows 100 @ decile 2 and 300 @ decile 6 of one coarse area give 5.
C10_Witness ==
  /\ am_pc = "done"
  /\ Len(population_rows) = 2
  /\ int(population_rows[1].population_total) = Some(100)
  /\ imd_value_of(population_rows[1]) = Some(2)
  /\ int(population_rows[2].population_total) = Some(300)
  /\ imd_value_of(population_rows[2]) = Some(6)
  /\ Len(metrics) = 1
  /\ WeightedRows(metrics[1].area_code) = {1, 2}
  /\ metrics[1].imd_decile = Some(5)

\* rate, in units of 1e-4, is count / population * 10000.
ExactRate(rate, count, population) == rate * population = count * 100000000

\* rate, in units of 1e-4, is count / population * 10000 to the nearest 1e-4.
RoundedRate(rate, count, population) ==
  2 * Abs(rate * population - count * 100000000) <= population

\* The three rates of m stand in relation Is(rate, count, population) to
\* their own count and denominator, and are 0.0 over a denominator of zero.
RatesOf(m, Is(_, _, _)) ==
  /\ IF m.population_total = 0 THEN m.practices_per_10k = 0
     ELSE Is(m.practices_per_10k, m.practice_count, m.population_total)
  /\ IF m.population_adults = 0 THEN m.accepting_adults_per_10k_adults = 0
     ELSE Is(m.accepting_adults_per_10k_adults, m.accepting_adults_count,
             m.population_adults)
  /\ IF m.population_children = 0 THEN m.accepting_children_per_10k_children = 0
     ELSE Is(m.accepting_children_per_10k_children, m.accepting_children_count,
             m.population_children)

\* C11 as stated: every rate of every metric record equals
\* count / population * 10000 over its own denominator, and is 0.0 when that
\* denominator is zero.
C11_ExactRates ==
  MetricsBuilt => \A i \in 1..Len(metrics) : RatesOf(metrics[i], ExactRate)

\* C11: every rate of every metric record equals count / population * 10000
\* over its own denominator rounded to four decimal places, and is 0.0 when
\* that denominator is zero.
C11_RoundedRates ==
  MetricsBuilt => \A i \in 1..Len(metrics) : RatesOf(metrics[i], RoundedRate)

\* A metric with an accepting practice over a child population of zero, and
\* rates that are not multiples of 1e-4 before rounding.
C11_Witness ==
  /\ am_pc = "done"
  /\ \E i \in 1..Len(metrics) :
       /\ metrics[i].population_children = 0
       /\ metrics[i].accepting_children_count = 1
       /\ metrics[i].accepting_children_per_10k_children = 0
       /\ metrics[i].population_total = 300
       /\ metrics[i].practice_count = 1
       /\ metrics[i].practices_per_10k = 333333

\* The practices passed in that lie in an in-scope fine area mapped to k.
JoinedTo(k) ==
  {i \in 1..Len(practices) :
     /\ InScopeFine(practices[i].area_code)
     /\ get_str(lsoa_to_msoa, lsoa_code_from_area(practices[i].area_code)) = k}

\* C12: for every coarse area, practice_count is the number of practices
\* whose fine area is in scope and maps to its key, accepting_adults_count
\* the number of those whose adult flag is exactly "yes", and
\* accepting_children_count the number whose child flag is exactly "yes".
C12_PracticeCounts ==
  MetricsBuilt =>
    \A m \in 1..Len(metrics) :
      LET J == JoinedTo(metrics[m].area_code) IN
      /\ metrics[m].practice_count = Cardinality(J)
      /\ metrics[m].accepting_adults_count =
           Cardinality({i \in J : practices[i].accepting_adults = Yes})
      /\ metrics[m].accepting_children_count =
           Cardinality({i \in J : practices[i].accepting_children = Yes})

\* Two practices of one fine area with flags (yes, no) and (no, yes) over
\* 1000 adults and 500 children: counts 1 and 1, rates 10.0 and 20.0.
C12_Witness ==
  /\ am_pc = "done"
  /\ Len(practices) = 2
  /\ practices[1].area_code = practices[2].area_code
  /\ <<practices[1].accepting_adults, practices[1].accepting_children>> = <<Yes, No>>
  /\ <<practices[2].accepting_adults, practices[2].accepting_children>> = <<No, Yes>>
  /\ Len(metrics) = 1
  /\ metrics[1].population_adults = 1000
  /\ metrics[1].population_children = 500
  /\ metrics[1].practice_count = 2
  /\ metrics[1].accepting_adults_count = 1
  /\ metrics[1].accepting_children_count = 1
  /\ metrics[1].accepting_adults_per_10k_adults = 100000
  /\ metrics[1].accepting_children_per_10k_children = 200000

\* The coarse key of a coarse name, as the population loop resolves it.
CoarseKeyOfName(msoa_name) ==
  IF Truthy(msoa_name_to_code(upper(msoa_name)))
  THEN msoa_key_from_code(msoa_name_to_code(upper(msoa_name)))
  ELSE msoa_key_from_name(msoa_name)

\* The in-scope coarse areas the inputs hold data of: those of the admitted
\* population rows, and those the practice-derived mapping names for the
\* in-scope fine area of a practice.
CoarseAreasWithData ==
  {msoa_key_of(population_rows[i]) :
     i \in {j \in 1..Len(population_rows) : population_row_admitted(population_rows[j])}}
  \cup
  {k \in {CoarseKeyOfName(lsoa_to_msoa_from_practices[lsoa_code_from_area(practices[i].area_code)]) :
            i \in {j \in 1..Len(practices) :
                     /\ InScopeFine(practices[j].area_code)
                     /\ lsoa_code_from_area(practices[j].area_code)
                          \in DOMAIN lsoa_to_msoa_from_practices}} :
     InScopeCoarse(k)}

\* The record of a coarse area without population.
ZeroPopulationRecord(m) ==
  /\ m.population_total = 0
  /\ m.population_adults = 0
  /\ m.population_children = 0
  /\ m.practices_per_10k = 0
  /\ m.accepting_adults_per_10k_adults = 0
  /\ m.accepting_children_per_10k_children = 0
  /\ m.imd_decile = Unknown

\* C13 as stated: an in-scope coarse key with practice joins and no
\* population row has a metric record of zero population, zero rates and an
\* unknown decile, so that every in-scope coarse area the inputs hold data of
\* has a record in the metrics.
C13_EveryAreaWithDataAppears ==
  am_pc = "done" =>
    /\ \A k \in DOMAIN counts :
         (k \notin DOMAIN msoa_population /\ InScopeCoarse(k)) =>
           \E m \in 1..Len(metrics) :
             metrics[m].area_code = k /\ ZeroPopulationRecord(metrics[m])
    /\ CoarseAreasWithData \subseteq metric_keys(metrics)

\* C13, the part the code keeps: every in-scope coarse key that a practice
\* was joined to, and every coarse key of an admitted population row, has a
\* record in the metrics, whether or not the other kind of data exists for it.
C13_JoinedAreasAppear ==
  MetricsBuilt =>
    /\ \A k \in DOMAIN counts : InScopeCoarse(k) => k \in metric_keys(metrics)
    /\ \A i \in 1..Len(population_rows) :
         population_row_admitted(population_rows[i]) =>
           msoa_key_of(population_rows[i]) \in metric_keys(metrics)

\* Two coarse areas, one with a joined practice and one with population
\* alone, both in the metrics.
C13_Witness ==
  /\ am_pc = "done"
  /\ Len(metrics) = 2
  /\ metrics[1].practice_count = 1
  /\ metrics[2].practice_count = 0
  /\ metrics[2].population_total = 0
  /\ metrics[2].imd_decile = Unknown

\* The boundary-metadata entries that have a code and whose name is name
\* up to case.
MetadataMatches(name) ==
  {j \in 1..Len(msoa_boundary_rows) :
     /\ strip(msoa_boundary_rows[j].msoa_code) # <<>>
     /\ strip(msoa_boundary_rows[j].msoa_name) # <<>>
     /\ upper(strip(msoa_boundary_rows[j].msoa_name)) = upper(name)}

CodeKeys(name) ==
  {msoa_key_from_code(strip(msoa_boundary_rows[j].msoa_code)) : j \in MetadataMatches(name)}

\* d and e are the same dict but at the keys in K.
SameBut(d, e, K) ==
  /\ DOMAIN d \ K = DOMAIN e \ K
  /\ \A k \in DOMAIN d \ K : d[k] = e[k]

\* The population row read in this step has a coarse name that matches a
\* boundary-metadata entry with a code.
ReadsMatchedRow ==
  /\ am_pc = "population"
  /\ Len(population_rows') = Len(population_rows) + 1
  /\ InScopeFine(Last(population_rows').area_code)
  /\ Truthy(msoa_name_of(Last(population_rows')))
  /\ MetadataMatches(msoa_name_of(Last(population_rows'))) # {}

\* C14: a population row whose derived coarse name matches, up to case, a
\* boundary-metadata entry that has a code is aggregated under a key made of
\* such a code and changes nothing under any other key, its name-derived key
\* included; and no key of the population totals or of the metrics is the
\* name-derived key of a name that has a code in the metadata.
C14_CodeKeyPreferred ==
  /\ [][ReadsMatchedRow =>
          LET row == Last(population_rows')
              K == CodeKeys(msoa_name_of(row))
          IN /\ msoa_key_from_name(msoa_name_of(row)) \notin K
             /\ SameBut(msoa_population', msoa_population, K)
             /\ SameBut(msoa_imd_weighted', msoa_imd_weighted, K)
             /\ \A c \in DOMAIN lsoa_to_msoa' :
                  lsoa_to_msoa'[c] \in K
                    \/ (c \in DOMAIN lsoa_to_msoa /\ lsoa_to_msoa'[c] = lsoa_to_msoa[c])]_vars
  /\ [](\A k \in DOMAIN msoa_population \cup metric_keys(metrics) :
          \A j \in 1..Len(msoa_boundary_rows) :
            (/\ strip(msoa_boundary_rows[j].msoa_code) # <<>>
             /\ strip(msoa_boundary_rows[j].msoa_name) # <<>>
             /\ startswith(k, MSOA_NS))
            => upper(SubSeq(k, Len(MSOA_NS) + 1, Len(k)))
                 # upper(strip(msoa_boundary_rows[j].msoa_name)))

\* Two rows of the coarse name "Ely 001" were read where the metadata holds
\* "ELY 001" with a code: one metric, under the code-derived key.
C14_Witness ==
  /\ am_pc = "done"
  /\ Len(population_rows) = 2
  /\ \A i \in 1..2 :
       /\ msoa_name_of(population_rows[i]) = S_Ely001
       /\ MetadataMatches(S_Ely001) # {}
  /\ population_rows[1].area_code # population_rows[2].area_code
  /\ Len(metrics) = 1
  /\ metrics[1].area_code = msoa_key_from_code(S_E02000001)
  /\ metrics[1].population_total = 400

\* The geometry the fallback makes for the metric at position i.
SyntheticGeometry(i) ==
  [type |-> "Polygon",
   coordinates |-> <<ring(center(metrics[i].area_code, i - 1))>>]

\* The feature carries a synthesized polygon.
IsSynthetic(f) == \E i \in 1..Len(metrics) : f.geometry = SyntheticGeometry(i)

SyntheticEmitted == \E i \in 1..Len(areas_features) : IsSynthetic(areas_features[i])

\* Boundary rows were read from a coarse or a fine boundary source.
SourceExists == msoa_boundary_rows # <<>> \/ lsoa_boundary_rows # <<>>

\* The features the boundary rows that were read give.
SourceFeatures ==
  IF msoa_boundary_rows # <<>> THEN coarse_features(metrics)
  ELSE fine_features(metrics, lsoa_boundary_rows)

\* C15 as stated: synthetic polygons are emitted only when no boundary
\* source exists at all, neither coarse nor fine.
C15_SyntheticOnlyWithoutSource ==
  am_pc = "done" => (SyntheticEmitted => ~SourceExists)

\* C15, what the code keeps: synthetic polygons are emitted only when no
\* boundary row that was read matches a metric, and then every feature is
\* synthetic; when a row matches, no synthetic polygon is emitted.
C15_SyntheticOnlyWithoutMatch ==
  am_pc = "done" =>
    /\ SyntheticEmitted =>
         /\ SourceFeatures = <<>>
         /\ \A i \in 1..Len(areas_features) : IsSynthetic(areas_features[i])
    /\ SourceFeatures # <<>> => areas_features = SourceFeatures

\* Fine boundaries were read, none of them of a coarse area of the metrics,
\* and the one metric got a synthetic polygon.
C15_Witness ==
  /\ am_pc = "done"
  /\ lsoa_boundary_rows # <<>>
  /\ Len(metrics) = 1
  /\ Len(areas_features) = 1
  /\ IsSynthetic(areas_features[1])

\* The features emitted for coarse key k.
FeaturesOf(k) == {i \in 1..Len(areas_features) : areas_features[i].area_code = k}

\* C16 as stated: whichever boundary source is selected, every key of the
\* metrics map is the area_code of exactly one emitted feature.
C16_OneFeaturePerMetric ==
  am_pc = "done" =>
    \A m \in 1..Len(metrics) : Cardinality(FeaturesOf(metrics[m].area_code)) = 1

\* C16, what the code keeps: when no boundary row that was read matches a
\* metric, every key of the metrics map is the area_code of exactly one
\* emitted feature, and there is no other feature.
C16_OneSyntheticPerMetric ==
  (am_pc = "done" /\ SourceFeatures = <<>>) =>
    /\ Len(areas_features) = Len(metrics)
    /\ \A m \in 1..Len(metrics) : Cardinality(FeaturesOf(metrics[m].area_code)) = 1

\* Two metrics and no boundary source: two features, one for each.
C16_Witness ==
  /\ am_pc = "done"
  /\ ~SourceExists
  /\ Len(metrics) = 2
  /\ Len(areas_features) = 2
  /\ areas_features[1].area_code = metrics[1].area_code
  /\ areas_features[2].area_code = metrics[2].area_code

\* =================================================================
\* Failures
\* =================================================================

\* C17 as stated, for build_practices: whatever the cache file and the
\* records hold, the run does not end with an unhandled failure.
C17_NeverAborts == pc # "aborted"

\* C17, what the code keeps: a missing cache file is read as an empty cache
\* and the run goes on to the rows; only a cache file that exists is parsed.
C17_MissingCacheIsEmpty ==
  [][(pc = "start" /\ disk.state = "missing") => (pc' = "loop" /\ cache' = <<>>)]_vars

\* The cache file is missing, it was read as empty, and a row was accepted
\* and geocoded into the cache.
C17_Witness ==
  /\ pc = "loop"
  /\ disk.state = "missing"
  /\ cache_reads = 1
  /\ results # <<>>
  /\ cache # <<>>

\* =================================================================
\* The accepted practices
\* =================================================================

\* C18 as stated: no two practices of the accepted list share a practice_id.
C18_UniqueIds ==
  \A i, j \in 1..Len(results) :
    i # j => results[i].practice_id # results[j].practice_id

\* C18, what the code keeps: no two practices of the accepted list share
\* the pair of lowercased name and normalized postcode that rows are
\* deduplicated by.
C18_UniqueKeys ==
  \A i, j \in 1..Len(results) :
    i # j => PracticeKey(results[i]) # PracticeKey(results[j])

\* A row was dropped as a duplicate, and two accepted practices of
\* different names have one practice_id.
C18_Witness ==
  /\ warning_counts["deduplicated_practices"] = 1
  /\ Len(results) = 2
  /\ results[1].practice_id = results[2].practice_id
  /\ results[1].practice_name # results[2].practice_name

TriState == {Yes, No, Unknown}

\* The value of the availability row of practice p under field f, trimmed
\* and lowercased; "unknown" where p has no availability row.
FlagOf(p, f) ==
  IF p.practice_id \in DOMAIN availability_raw
  THEN lower(strip(availability_raw[p.practice_id][f]))
  ELSE Unknown

\* C19 as stated: both flags of every accepted practice are one of "yes",
\* "no" and "unknown", whatever the availability rows hold.
C19_TriStateFlags ==
  \A n \in 1..Len(results) :
    /\ results[n].accepting_adults \in TriState
    /\ results[n].accepting_children \in TriState

\* C19, what the code keeps: each flag of an accepted practice is the value
\* of its availability row trimmed and lowercased, and "unknown" where it has
\* no such row; so it is one of the three when the row's value is.
C19_NormalizedFlags ==
  \A n \in 1..Len(results) :
    /\ results[n].accepting_adults = FlagOf(results[n], "accepting_adults")
    /\ results[n].accepting_children = FlagOf(results[n], "accepting_children")

\* An accepted practice whose availability row holds " Yes" and "maybe".
C19_Witness ==
  \E n \in 1..Len(results) :
    /\ results[n].practice_id \in DOMAIN availability_raw
    /\ availability_raw[results[n].practice_id].accepting_adults = <<" ", "Y", "e", "s">>
    /\ results[n].accepting_adults = Yes
    /\ results[n].accepting_children = <<"m", "a", "y", "b", "e">>

\* =================================================================
\* build_qa
\* =================================================================

\* Practices passed to build_qa.
MaxQAPractices == 4

\* haversine_km for two points of one longitude, where the great circle is
\* the meridian and the distance is 6371 * |lat1 - lat2| in radians:
\* 11.1195 km for a tenth of a degree, in units of 1e-4 km.
haversine_km(lat1, lon1, lat2, lon2) ==
  (IF lat1 < lat2 THEN lat2 - lat1 ELSE lat1 - lat2) * 111195

RECURSIVE insert_sorted(_, _)
insert_sorted(s, x) ==
  IF s = <<>> THEN <<x>>
  ELSE IF x < Head(s) THEN <<x>> \o s
  ELSE <<Head(s)>> \o insert_sorted(Tail(s), x)

RECURSIVE sorted(_)
\* sorted(s) of a list of numbers.
sorted(s) == IF s = <<>> THEN <<>> ELSE insert_sorted(sorted(Front(s)), Last(s))

\* [p for p in practices if not p.geocode_failed and p.lat is not None
\*  and p.lon is not None]
geocoded_of(ps) ==
  SelectSeq(ps, LAMBDA p : ~p.geocode_failed /\ p.lat # Nothing /\ p.lon # Nothing)

known_availability_of(ps) ==
  SelectSeq(geocoded_of(ps),
            LAMBDA p : p.accepting_adults \in {Yes, No} \/ p.accepting_children \in {Yes, No})

RECURSIVE distances_of(_)
\* The distance of every practice of g to every later one, in loop order.
distances_of(g) ==
  IF Len(g) < 2 THEN <<>>
  ELSE [j \in 1..(Len(g) - 1) |->
          haversine_km(g[1].lat[1], g[1].lon[1], g[j + 1].lat[1], g[j + 1].lon[1])]
       \o distances_of(Tail(g))

\* The middle of a sorted list taken at its lower index whatever its length.
median_lower(distances_sorted) ==
  [num |-> distances_sorted[(Len(distances_sorted) + 1) \div 2], den |-> 1]

\* The median of a sorted list as the fraction num / den.
median_of(distances_sorted) ==
  LET mid == Len(distances_sorted) \div 2
  IN IF Len(distances_sorted) % 2 = 1
     THEN [num |-> distances_sorted[mid + 1], den |-> 1]
     ELSE [num |-> distances_sorted[mid] + distances_sorted[mid + 1], den |-> 2]

\* round(x, 3) of a distance num / den in units of 1e-4 km, in units of 1e-3 km.
round_3(num, den) == round_half_even(num, 10 * den)

\* dist_summary: each field Some(km, in units of 1e-3) or Nothing for null.
dist_summary_of(distances) ==
  IF distances # <<>>
  THEN LET distances_sorted == sorted(distances)
           median == median_of(distances_sorted)
       IN [min_km |-> Some(round_3(distances_sorted[1], 1)),
           median_km |-> Some(round_3(median.num, median.den)),
           max_km |-> Some(round_3(Last(distances_sorted), 1))]
  ELSE [min_km |-> Nothing, median_km |-> Nothing, max_km |-> Nothing]

\* p.area_code or "unassigned"
area_or_unassigned(p) ==
  IF Truthy(p.area_code) THEN p.area_code
  ELSE <<"u", "n", "a", "s", "s", "i", "g", "n", "e", "d">>

\* Counter(items).most_common(10): pairs by falling count, equal counts in
\* the order of first occurrence, at most ten of them.
most_common(items) ==
  LET keys == counter_keys(items)
      n == Len(keys)
      \* the number of keys placed before keys[i]
      rank(i) == Cardinality({j \in 1..n :
                    \/ counter_count(items, keys[j]) > counter_count(items, keys[i])
                    \/ /\ counter_count(items, keys[j]) = counter_count(items, keys[i])
                       /\ j < i})
      ordered == [r \in 1..n |->
                    LET i == CHOOSE i \in 1..n : rank(i) = r - 1
                    IN <<keys[i], counter_count(items, keys[i])>>]
  IN SubSeq(ordered, 1, IF n < 10 THEN n ELSE 10)

\* The report build_qa writes; now is the clock reading of generated_at_utc.
report_of(ps, tally, ws, now) ==
  LET geocoded == geocoded_of(ps)
      distances == distances_of(geocoded)
      missing == SelectSeq(ps, LAMBDA p : p.geocode_failed \/ p.area_code = None)
  IN [generated_at_utc |-> now,
      counts |-> [practices_total |-> Len(ps),
                  practices_geocoded |-> Len(geocoded),
                  practices_availability_known |-> Len(known_availability_of(ps))],
      \* round(len(geocoded) / len(practices) * 100, 2) in units of 1e-2
      geocoding_success_rate |->
        IF ps # <<>> THEN round_half_even(Len(geocoded) * 10000, Len(ps)) ELSE 0,
      warning_counts |-> tally,
      top_missing_data_examples |->
        SubSeq(ws, 1, IF Len(ws) < 10 THEN Len(ws) ELSE 10),
      top_areas_with_missing_data |->
        most_common([i \in 1..Len(missing) |-> area_or_unassigned(missing[i])]),
      distance_summary_between_practices |-> dist_summary_of(distances)]

\* Practices build_qa is called with: those of write_areas_and_metrics and
\* one further north.
QAPracticePool ==
  PracticePool \cup
  { [practice_id |-> <<"p", "3">>, practice_name |-> <<"A", "s", "h">>,
     postcode_norm |-> S_AB12CD, lat |-> Some(530), lon |-> Some(-1),
     area_code |-> <<"h", "i", "n", "t">>, geocode_failed |-> FALSE,
     accepting_adults |-> Unknown, accepting_children |-> Yes] }

\* The warning of a practice whose geocoding failed.
geocode_warning(p) ==
  [practice_id |-> p.practice_id, kind |-> "geocode lookup failed",
   detail |-> p.postcode_norm]

\* The state in which main calls build_qa: build_practices has returned
\* results, warning_counts and warnings.
QAInit ==
  /\ AMIdle
  /\ NPIdle
  /\ pc = "done"
  /\ practices_raw = <<>>
  /\ availability_raw = <<>>
  /\ lookup = <<>>
  /\ disk = [state |-> "ok", data |-> <<>>]
  /\ cache = <<>>
  /\ seen = {}
  /\ live_log = <<>>
  /\ cache_reads = 1
  /\ cache_writes = 1
  /\ results \in UNION {[1..n -> QAPracticePool] : n \in 0..MaxQAPractices}
  \* build_practices keeps one practice of a name and postcode
  /\ \A i, j \in 1..Len(results) :
       (/\ lower(results[i].practice_name) = lower(results[j].practice_name)
        /\ results[i].postcode_norm = results[j].postcode_norm) => i = j
  \* the warnings build_practices leaves before its geocoding warnings
  /\ \E early \in { <<>>,
                    << [practice_id |-> <<"p", "2">>, kind |-> "missing postcode",
                        detail |-> <<>>] >> } :
       LET failed == SelectSeq(results, LAMBDA p : p.geocode_failed)
       IN /\ warnings = early \o [i \in 1..Len(failed) |-> geocode_warning(failed[i])]
          /\ warning_counts =
               [c \in Categories |->
                  IF c = "missing_postcode" THEN Len(early)
                  ELSE IF c = "geocode_failed" THEN Len(failed) ELSE 0]
  /\ qa_pc = "start"
  /\ report = <<>>

\* build_qa(practices, warning_counts, warnings)
BuildQA(now) ==
  /\ pc = "done"
  /\ qa_pc = "start"
  /\ report' = report_of(results, warning_counts, warnings, now)
  /\ qa_pc' = "done"
  /\ UNCHANGED <<bpVars, amVars, npVars>>

QANext == \E now \in {1, 2} : BuildQA(now)

SpecQA == QAInit /\ [][QANext]_vars

\* ----------------------------------------------------------------- C20

\* The practices build_qa counts as geocoded, by their position in results.
GeocodedAt ==
  {i \in 1..Len(results) :
     ~results[i].geocode_failed /\ results[i].lat # Nothing /\ results[i].lon # Nothing}

\* The unordered pairs of geocoded practices.
GeocodedPairs == {pr \in GeocodedAt \X GeocodedAt : pr[1] < pr[2]}

\* The distance of a pair along the meridian the practices share.
PairDistance(pr) == Abs(results[pr[1]].lat[1] - results[pr[2]].lat[1]) * 111195

\* The k-th smallest of the pair distances.
KthDistance(k) ==
  CHOOSE v \in {PairDistance(pr) : pr \in GeocodedPairs} :
    /\ Cardinality({pr \in GeocodedPairs : PairDistance(pr) < v}) < k
    /\ Cardinality({pr \in GeocodedPairs : PairDistance(pr) <= v}) >= k

DistanceSummary == report.distance_summary_between_practices

\* C20: the distance summary of build_qa is null in all three fields exactly
\* when fewer than two practices are geocoded; otherwise the distance list
\* has one entry per unordered pair of geocoded practices, n(n-1)/2 in all,
\* min_km and max_km are its least and greatest entry, median_km is its
\* middle entry when the list has odd length and the mean of its two middle
\* entries when even (each rounded to 3 decimals), and
\* min_km <= median_km <= max_km.
C20_DistanceSummary ==
  qa_pc = "done" =>
    LET n == Cardinality(GeocodedAt)
        m == Cardinality(GeocodedPairs)
    IN /\ (/\ DistanceSummary.min_km = Nothing
           /\ DistanceSummary.median_km = Nothing
           /\ DistanceSummary.max_km = Nothing) <=> n < 2
       /\ (\/ DistanceSummary.min_km = Nothing
           \/ DistanceSummary.median_km = Nothing
           \/ DistanceSummary.max_km = Nothing) <=> n < 2
       /\ Len(distances_of(geocoded_of(results))) = m
       /\ 2 * m = n * (n - 1)
       /\ n >= 2 =>
            /\ DistanceSummary.min_km = Some(round_half_even(KthDistance(1), 10))
            /\ DistanceSummary.max_km = Some(round_half_even(KthDistance(m), 10))
            /\ m % 2 = 1 =>
                 DistanceSummary.median_km =
                   Some(round_half_even(KthDistance((m + 1) \div 2), 10))
            /\ m % 2 = 0 =>
                 DistanceSummary.median_km =
                   Some(round_half_even(KthDistance(m \div 2) + KthDistance(m \div 2 + 1), 20))
            /\ DistanceSummary.min_km[1] <= DistanceSummary.median_km[1]
            /\ DistanceSummary.median_km[1] <= DistanceSummary.max_km[1]

\* Four geocoded practices: six distances, whose two middle entries differ, so
\* the median lies strictly between them.
C20_Witness ==
  /\ qa_pc = "done"
  /\ Cardinality(GeocodedAt) = 4
  /\ Cardinality(GeocodedPairs) = 6
  /\ KthDistance(3) < KthDistance(4)
  /\ DistanceSummary.min_km[1] < DistanceSummary.median_km[1]
  /\ DistanceSummary.median_km[1] < DistanceSummary.max_km[1]
  /\ DistanceSummary.median_km[1] * 10 > KthDistance(3)
  /\ DistanceSummary.median_km[1] * 10 < KthDistance(4)

\* ----------------------------------------------------------------- C21

\* The rings of the synthesized polygons among the emitted features.
SyntheticRings ==
  {areas_features[i].geometry.coordinates[1] :
     i \in {j \in 1..Len(areas_features) : IsSynthetic(areas_features[j])}}

\* The angle of a vertex, 2*pi*step/steps, in degrees.
AngleOf(v) == (360 * v.step) \div steps

\* C21: every synthesized polygon has one ring of exactly 19 coordinates:
\* 18 vertices around one center at the equally spaced angles 0, 20, ...,
\* 340 degrees, followed by a closing coordinate identical to the first.
C21_SyntheticRing ==
  am_pc = "done" =>
    /\ \A i \in 1..Len(areas_features) :
         IsSynthetic(areas_features[i]) =>
           Len(areas_features[i].geometry.coordinates) = 1
    /\ \A r \in SyntheticRings :
         /\ Len(r) = 19
         /\ \A j \in 1..18 : r[j].center = r[1].center /\ AngleOf(r[j]) = 20 * (j - 1)
         /\ \A j, k \in 1..18 : r[j] = r[k] => j = k
         /\ r[19] = r[1]

\* Two synthesized polygons, one around the centroid of the practices of its
\* area and one around the default center of its position.
C21_Witness ==
  /\ am_pc = "done"
  /\ Cardinality(SyntheticRings) = 2
  /\ \E r \in SyntheticRings : r[1].center.den > 1
  /\ \E r \in SyntheticRings : r[1].center = [lat |-> 5102, lon |-> -102, den |-> 1]

\* =================================================================
\* normalize_postcode
\* =================================================================

\* Characters of the postcodes.
MaxPostcodeLen == 4

\* A space, a tab, a letter in both cases and a digit.
PostcodeChars == {" ", "\t", "e", "E", "1"}

NPInit ==
  /\ BPIdle
  /\ AMIdle
  /\ QAIdle
  /\ np_postcode \in UNION {[1..n -> PostcodeChars] : n \in 0..MaxPostcodeLen}
  /\ np_value = np_postcode
  /\ np_calls = 0

\* normalize_postcode applied to the value at hand.
Normalize ==
  /\ np_calls < 2
  /\ np_value' = normalize_postcode(np_value)
  /\ np_calls' = np_calls + 1
  /\ UNCHANGED <<np_postcode, bpVars, amVars, qaVars>>

NPNext == Normalize

SpecPostcode == NPInit /\ [][NPNext]_vars

\* ----------------------------------------------------------------- C22

\* C22: normalize_postcode is idempotent: applied to its own result it
\* returns that result, for every input string.
C22_Idempotent ==
  /\ np_calls = 1 => np_value = normalize_postcode(np_postcode)
  /\ np_calls = 2 =>
       /\ np_value = normalize_postcode(normalize_postcode(np_postcode))
       /\ np_value = normalize_postcode(np_postcode)

\* A postcode with whitespace at both ends and inside and a lowercase
\* letter, normalised twice: the first application changed it.
C22_Witness ==
  /\ np_calls = 2
  /\ np_postcode = <<" ", "e", "\t", "1">>
  /\ np_value = <<"E", "1">>

\* ----------------------------------------------------------------- C23

\* The loop has just accepted a row that had no usable source coordinates
\* and whose geocode was resolved by the cache, the lookup table or the
\* live fetch.
ResolvesRow ==
  /\ AcceptsRow
  /\ source_coords(Last(practices_raw')) = Nothing
  /\ ~Last(results').geocode_failed

\* The dict the resolver returned for the row just accepted.
ResolverDict ==
  LET postcode_norm == Last(results').postcode_norm
      c == get(cache, postcode_norm)
      l == get(lookup, postcode_norm)
  IN IF TruthyDict(c) THEN c[1]
     ELSE IF TruthyDict(l) THEN l[1]
     ELSE Last(live_log').response[1]

\* The canonical fine-area key of the resolver's dict, or None.
ResolverKey ==
  canonical_lsoa_area_code(
    strip(IF ResolverDict.area_code = Absent THEN <<>> ELSE ResolverDict.area_code))

\* The area hint of the row just read.
Hint == strip(Last(practices_raw').area_code)

\* C23 as stated: a resolved row that supplies an area hint takes its
\* fine-area key from the hint (canonicalized where it is a code) and never
\* from the resolver; the resolver's key is used only where there is no hint.
C23_HintAlwaysPreferred ==
  [][ResolvesRow =>
       IF Hint # <<>>
       THEN Last(results').area_code \in {canonical_lsoa_area_code(Hint), Hint} \ {None}
       ELSE Last(results').area_code = ResolverKey
    ]_vars

\* C23, what the code keeps: the key is the canonical form of the hint where
\* the hint is a fine-area code; otherwise the canonical key of the resolver
\* where it returned a fine-area code; otherwise the hint as written; and
\* None where there is neither.
C23_CanonicalHintPreferred ==
  [][ResolvesRow =>
       LET p == Last(results')
       IN IF canonical_lsoa_area_code(Hint) # None
          THEN p.area_code = canonical_lsoa_area_code(Hint)
          ELSE IF ResolverKey # None
          THEN p.area_code = ResolverKey
          ELSE IF Hint # <<>>
          THEN p.area_code = Hint
          ELSE p.area_code = None
    ]_vars

\* A practice resolved from the lookup table, whose row hinted at one fine
\* area while the table named another: the practice has the hinted one.
C23_Witness ==
  /\ results # <<>>
  /\ Last(practices_raw).practice_id = <<"p", "7">>
  /\ Last(results).practice_id = <<"p", "7">>
  /\ ~Last(results).geocode_failed
  /\ Last(results).area_code = LSOA_NS \o S_E01000001
  /\ S_AB12CD \in DOMAIN lookup
  /\ lookup[S_AB12CD].area_code = S_W01000002
  /\ Last(results).lat = float(lookup[S_AB12CD].lat)
  /\ disk.state = "missing"

\* ----------------------------------------------------------------- C24

\* The source a feature's geometry comes from.
SourceOf(f) ==
  IF IsSynthetic(f) THEN "synthesis"
  ELSE IF \E i \in 1..Len(msoa_boundary_rows) : msoa_boundary_rows[i].geometry = f.geometry
  THEN "coarse"
  ELSE IF \E i \in 1..Len(lsoa_boundary_file) : lsoa_boundary_file[i].geometry = f.geometry
  THEN "fine"
  ELSE "none"

FeatureSources == {SourceOf(areas_features[i]) : i \in 1..Len(areas_features)}

\* C24: the emitted features all come from one source: the coarse
\* boundaries, the fine boundaries, or synthesis.  Where coarse boundary rows
\* exist the fine boundary file is not loaded and no feature comes from it,
\* whatever it holds and whether or not the coarse rows match a metric; the
\* fine boundaries are loaded only where there are no coarse rows.
C24_OneSource ==
  am_pc = "done" =>
    /\ "none" \notin FeatureSources
    /\ Cardinality(FeatureSources) <= 1
    /\ metrics # <<>> => Cardinality(FeatureSources) = 1
    /\ msoa_boundary_rows # <<>> =>
         /\ lsoa_boundary_rows = <<>>
         /\ "fine" \notin FeatureSources
    /\ msoa_boundary_rows = <<>> =>
         /\ lsoa_boundary_rows = lsoa_boundary_file
         /\ "coarse" \notin FeatureSources

\* Coarse boundary rows that match no metric beside a fine boundary file
\* that holds a row for a metric: every feature is synthesized.
C24_Witness ==
  /\ am_pc = "done"
  /\ msoa_boundary_rows # <<>>
  /\ coarse_features(metrics) = <<>>
  /\ fine_features(metrics, lsoa_boundary_file) # <<>>
  /\ areas_features # <<>>
  /\ FeatureSources = {"synthesis"}

\* ----------------------------------------------------------------- C25

\* The coarse name the postcode cache holds for the practice row at i.
NameAt(i) ==
  LET postcode_norm == normalize_postcode(practice_rows[i].postcode)
  IN IF postcode_norm \in DOMAIN postcode_lsoa_cache
     THEN strip(postcode_lsoa_cache[postcode_norm].msoa) ELSE <<>>

\* The fine code of the practice row at i.
CodeAt(i) == lsoa_code_from_area(strip(practice_rows[i].area_code))

\* The practice rows that have a postcode, a coarse name and a fine code.
TalliedRows ==
  {i \in 1..Len(practice_rows) :
     /\ postcode_lsoa_cache # <<>>
     /\ normalize_postcode(practice_rows[i].postcode) # <<>>
     /\ NameAt(i) # <<>>
     /\ CodeAt(i) # None}

Tally(lsoa_code, msoa_name) ==
  Cardinality({i \in TalliedRows : CodeAt(i) = lsoa_code /\ NameAt(i) = msoa_name})

\* The first row that names msoa_name for lsoa_code.
FirstSeen(lsoa_code, msoa_name) ==
  CHOOSE i \in TalliedRows :
    /\ CodeAt(i) = lsoa_code /\ NameAt(i) = msoa_name
    /\ \A j \in TalliedRows : (CodeAt(j) = lsoa_code /\ NameAt(j) = msoa_name) => i <= j

\* The population loop has just read a row.
ReadsPopulationRow ==
  am_pc = "population" /\ Len(population_rows') = Len(population_rows) + 1

\* The coarse name C25 gives a population row: the entry of the mapping for
\* its fine code, the suffix heuristic where there is none.
NameByMapping(row) ==
  LET lsoa_code == lsoa_code_from_area(strip(row.area_code))
  IN IF lsoa_code \in DOMAIN lsoa_to_msoa_from_practices
     THEN lsoa_to_msoa_from_practices[lsoa_code]
     ELSE derive_msoa_name_from_lsoa_name(strip(row.area_name))

\* The mapping has an entry for exactly the fine codes of the tallied rows,
\* each the name of the highest tally, the first-seen of those that share it.
MappingIsMostCommon ==
  /\ DOMAIN lsoa_to_msoa_from_practices = {CodeAt(i) : i \in TalliedRows}
  /\ \A k \in DOMAIN lsoa_to_msoa_from_practices :
       LET name == lsoa_to_msoa_from_practices[k]
       IN /\ Tally(k, name) > 0
          /\ \A i \in TalliedRows :
               CodeAt(i) = k =>
                 \/ Tally(k, NameAt(i)) < Tally(k, name)
                 \/ /\ Tally(k, NameAt(i)) = Tally(k, name)
                    /\ FirstSeen(k, name) <= FirstSeen(k, NameAt(i))

\* C25: the practice-derived mapping, which no step changes once it is
\* loaded, has an entry for exactly the fine codes of the tallied practice
\* rows, and the entry is the coarse name of the highest tally for that
\* code, the first-seen of the names that share it;
\* a population row whose fine code has an entry is aggregated under that
\* entry as its coarse name, and under the name of the suffix heuristic only
\* where the mapping has no entry for its code.
C25_PracticeMapping ==
  [][/\ population_rows = <<>> => MappingIsMostCommon
     /\ UNCHANGED <<practice_rows, postcode_lsoa_cache, lsoa_to_msoa_from_practices>>
     /\ ReadsPopulationRow =>
          LET row == Last(population_rows')
              lsoa_code == lsoa_code_from_area(strip(row.area_code))
              name == NameByMapping(row)
          IN IF /\ InScopeFine(row.area_code)
                /\ Truthy(name)
                /\ is_england_msoa_key(CoarseKeyOfName(name))
             THEN /\ lsoa_to_msoa'[lsoa_code] = CoarseKeyOfName(name)
                  /\ msoa_names_by_key'[CoarseKeyOfName(name)] = name
             ELSE /\ lsoa_to_msoa' = lsoa_to_msoa
                  /\ msoa_names_by_key' = msoa_names_by_key]_vars

\* A fine area whose practice rows name "Bow 002" once, first, and "Esk 002"
\* twice, and whose population row is named "Bow 002A": the mapping says
\* "Esk 002" and the row is aggregated under that name.
C25_Witness ==
  /\ am_pc = "done"
  /\ Tally(S_E01000004, S_Bow002) = 1
  /\ Tally(S_E01000004, S_Esk002) = 2
  /\ FirstSeen(S_E01000004, S_Bow002) < FirstSeen(S_E01000004, S_Esk002)
  /\ lsoa_to_msoa_from_practices[S_E01000004] = S_Esk002
  /\ \E i \in 1..Len(population_rows) :
       /\ lsoa_code_from_area(strip(population_rows[i].area_code)) = S_E01000004
       /\ derive_msoa_name_from_lsoa_name(strip(population_rows[i].area_name)) = S_Bow002
  /\ \E k \in DOMAIN msoa_names_by_key : msoa_names_by_key[k] = S_Esk002
  /\ \A k \in DOMAIN msoa_names_by_key : msoa_names_by_key[k] # S_Bow002
  /\ \E i \in 1..Len(metrics) : metrics[i].area_name = S_Esk002

\* ----------------------------------------------------------------- C26

\* C26: while build_practices keeps running and when it has returned, every
\* row read so far is accounted for once: accepted + deduplicated_practices +
\* missing_postcode + invalid_postcode is the number of rows read; and the
\* warning strings are as many as missing_postcode + invalid_postcode +
\* geocode_failed, one per such row: deduplication and missing availability
\* add to their counts and no string.
C26_RowAccounting ==
  pc \in {"loop", "done"} =>
    /\ Len(results) + warning_counts["deduplicated_practices"]
         + warning_counts["missing_postcode"] + warning_counts["invalid_postcode"]
       = Len(practices_raw)
    /\ Len(warnings)
       = warning_counts["missing_postcode"] + warning_counts["invalid_postcode"]
         + warning_counts["geocode_failed"]
    /\ \A c \in {"missing_postcode", "invalid_postcode", "geocode_failed"} :
         warning_counts[c] =
           Cardinality({i \in 1..Len(warnings) :
              warnings[i].kind = (IF c = "missing_postcode" THEN "missing postcode"
                                  ELSE IF c = "invalid_postcode" THEN "invalid postcode"
                                  ELSE "geocode lookup failed")})
    /\ warning_counts["geocode_failed"]
       = Cardinality({i \in 1..Len(results) : results[i].geocode_failed})
    /\ warning_counts["missing_availability"]
       = Cardinality({i \in 1..Len(results) :
                        results[i].practice_id \notin DOMAIN availability_raw})

\* Three rows read and the function returned: one accepted without an
\* availability row and without a geocode, its duplicate, and one with an
\* invalid postcode; two warning strings.
C26_Witness ==
  /\ pc = "done"
  /\ Len(practices_raw) = 3
  /\ Len(results) = 1
  /\ warning_counts["deduplicated_practices"] = 1
  /\ warning_counts["invalid_postcode"] = 1
  /\ warning_counts["geocode_failed"] = 1
  /\ warning_counts["missing_availability"] = 1
  /\ Len(warnings) = 2

\* ----------------------------------------------------------------- C27

\* The accepted rows so far that resolved the postcode, by position in results.
ResolvedBy(postcode_norm) ==
  {i \in 1..Len(results) :
     results[i].postcode_norm = postcode_norm /\ ~results[i].geocode_failed}

\* The live fetches of the postcode so far that failed.
FailedFetches(postcode_norm) ==
  {i \in 1..Len(live_log) :
     live_log[i].postcode = postcode_norm /\ ~TruthyDict(live_log[i].response)}

\* The loop has just accepted a row that had no parseable source coordinates.
AcceptsUnlocatedRow ==
  AcceptsRow /\ source_coords(Last(practices_raw')) = Nothing

\* C27: an accepted row without parseable source coordinates whose postcode
\* an earlier row of the run resolved takes its coordinates from the cache
\* entry the most recent such row wrote, whatever the lookup table holds, and
\* no live fetch is made; and such a row whose postcode no earlier row
\* resolved, and whose live fetch failed before, is fetched live once more.
C27_InRunCache ==
  [][AcceptsUnlocatedRow =>
       LET p == Last(results')
           by == ResolvedBy(p.postcode_norm)
       IN /\ by # {} =>
               LET r == results[CHOOSE i \in by : \A j \in by : j <= i]
                   entry == cache[p.postcode_norm]
               IN /\ entry = [lat |-> format_float(r.lat[1]),
                              lon |-> format_float(r.lon[1]),
                              area_code |-> IF r.area_code = None THEN <<>>
                                            ELSE r.area_code]
                  /\ ~p.geocode_failed
                  /\ p.lat = r.lat /\ p.lon = r.lon
                  /\ live_log' = live_log
          /\ (by = {} /\ FailedFetches(p.postcode_norm) # {}) =>
               /\ Len(live_log') = Len(live_log) + 1
               /\ Last(live_log').postcode = p.postcode_norm
    ]_vars

\* Three accepted rows of one postcode and no source coordinates: the live
\* fetch failed for the first, was made again and answered for the second,
\* and was not made for the third.
C27_Witness ==
  /\ Len(results) = 3
  /\ \A i \in 1..3 : results[i].postcode_norm = S_AB12CD
  /\ results[1].geocode_failed
  /\ ~results[2].geocode_failed
  /\ ~results[3].geocode_failed
  /\ results[3].lat = results[2].lat
  /\ Len(live_log) = 2
  /\ ~TruthyDict(live_log[1].response)
  /\ TruthyDict(live_log[2].response)

\* ----------------------------------------------------------------- C28

\* The admitted population rows read for the fine code of a practice.
AdmittedRowsOf(p) ==
  {j \in 1..Len(population_rows) :
     /\ population_row_admitted(population_rows[j])
     /\ lsoa_code_from_area(strip(population_rows[j].area_code))
          = lsoa_code_from_area(p.area_code)}

\* The practices that lie in an in-scope fine area of an admitted population
\* row, the last such row being aggregated under k.
JoinedThroughRows(k) ==
  {i \in 1..Len(practices) :
     /\ InScopeFine(practices[i].area_code)
     /\ AdmittedRowsOf(practices[i]) # {}
     /\ LET rows == AdmittedRowsOf(practices[i])
        IN msoa_key_of(population_rows[CHOOSE j \in rows : \A l \in rows : l <= j]) = k}

\* C28: a practice is counted only under the coarse key of an admitted
\* population row of its fine area, so a practice whose in-scope fine area
\* has no admitted population row is counted nowhere; every coarse key with a
\* practice count has a population record; and the metrics are one record per
\* population record, the practice-only branch adding none.
C28_JoinThroughPopulation ==
  am_pc \in {"join", "boundaries", "done"} =>
    /\ \A k \in DOMAIN counts :
         /\ k \in DOMAIN msoa_population
         /\ counts[k].total = Cardinality(JoinedThroughRows(k))
    /\ MetricsBuilt =>
         /\ SelectSeq(counts_order, practice_only) = <<>>
         /\ Len(metrics) = Cardinality(DOMAIN msoa_population)
         /\ metric_keys(metrics) = DOMAIN msoa_population
         /\ \A m \in 1..Len(metrics) :
              metrics[m].practice_count = Cardinality(JoinedThroughRows(metrics[m].area_code))

\* Two practices of in-scope fine areas, one of them of a fine area that has
\* an entry in the practice-derived mapping and no population row: one metric,
\* with a practice count of 1.
C28_Witness ==
  /\ am_pc = "done"
  /\ Len(practices) = 2
  /\ \A i \in 1..2 : InScopeFine(practices[i].area_code)
  /\ AdmittedRowsOf(practices[1]) # {}
  /\ AdmittedRowsOf(practices[2]) = {}
  /\ lsoa_code_from_area(practices[2].area_code) \in DOMAIN lsoa_to_msoa_from_practices
  /\ Len(metrics) = 1
  /\ metrics[1].practice_count = 1

\* ----------------------------------------------------------------- C29

\* The population row read in this step lies in an in-scope fine area and has
\* a coarse name that no boundary-metadata entry gives a code.
ReadsUncodedRow ==
  /\ ReadsPopulationRow
  /\ InScopeFine(Last(population_rows').area_code)
  /\ Truthy(msoa_name_of(Last(population_rows')))
  /\ MetadataMatches(msoa_name_of(Last(population_rows'))) = {}

\* C29: a population row of an in-scope fine area whose coarse name has no
\* code in the boundary metadata is mapped and (its counts being numbers)
\* aggregated, under the key made of the name, exactly when the name begins
\* with 'E'; otherwise it changes neither
\* the population totals nor the deprivation weights nor the fine-to-coarse
\* map.  So where there is no boundary metadata every metric has a name that
\* begins with 'E'.
C29_NameTestedAsCode ==
  [][/\ ReadsUncodedRow =>
          LET row == Last(population_rows')
              name == msoa_name_of(row)
              lsoa_code == lsoa_code_from_area(strip(row.area_code))
          IN IF name[1] = "E"
             THEN /\ lsoa_code \in DOMAIN lsoa_to_msoa'
                  /\ lsoa_to_msoa'[lsoa_code] = MSOA_NS \o name
                  /\ am_pc' # "aborted" => MSOA_NS \o name \in DOMAIN msoa_population'
             ELSE /\ lsoa_to_msoa' = lsoa_to_msoa
                  /\ msoa_names_by_key' = msoa_names_by_key
                  /\ msoa_population' = msoa_population
                  /\ msoa_imd_weighted' = msoa_imd_weighted
     /\ (msoa_boundary_rows = <<>> /\ am_pc' = "boundaries") =>
          \A m \in 1..Len(metrics') :
            /\ metrics'[m].area_name[1] = "E"
            /\ metrics'[m].area_code = MSOA_NS \o metrics'[m].area_name
    ]_vars

\* No boundary metadata and no practice-derived mapping; population rows of
\* the in-scope fine areas "Bow 002A" and "Ely 001A" were read: the only
\* metric is that of "Ely 001", and the fine area of "Bow 002A" is unmapped.
C29_Witness ==
  /\ am_pc = "done"
  /\ msoa_boundary_rows = <<>>
  /\ lsoa_to_msoa_from_practices = <<>>
  /\ Len(population_rows) = 2
  /\ population_rows[1].area_name = S_Bow002 \o <<"A">>
  /\ InScopeFine(population_rows[1].area_code)
  /\ population_rows[2].area_name = S_Ely001A
  /\ DOMAIN lsoa_to_msoa = {S_E01000001}
  /\ Len(metrics) = 1
  /\ metrics[1].area_name = S_Ely001

\* =================================================================
\* main: build_practices, then build_qa on what it returned
\* =================================================================

MainInit ==
  /\ BPInit
  /\ AMIdle
  /\ NPIdle
  /\ qa_pc = "start"
  /\ report = <<>>

MainNext ==
  \/ Load
  \/ \E row \in RowPool : RowDeduplicated(row)
  \/ \E row \in RowPool : RowMissingPostcode(row)
  \/ \E row \in RowPool : RowInvalidPostcode(row)
  \/ \E row \in RowPool : RowFromSource(row)
  \/ \E row \in RowPool, response \in LiveResponses : RowGeocoded(row, response)
  \/ \E row \in RowPool, response \in LiveResponses : RowGeocodeFailed(row, response)
  \/ \E row \in RowPool, response \in LiveResponses : RowRaises(row, response)
  \/ Save
  \/ \E now \in {1, 2} : BuildQA(now)

SpecMain == MainInit /\ [][MainNext]_vars

\* ----------------------------------------------------------------- C30

\* The practices the report counts as missing data.
MissingData ==
  {i \in 1..Len(results) : results[i].geocode_failed \/ results[i].area_code = None}

S_unassigned == <<"u", "n", "a", "s", "s", "i", "g", "n", "e", "d">>

\* C30: a practice build_practices returns with a failed geocode has no
\* fine-area key, whatever area hint its row gave; so every practice the
\* report counts as missing data has none, and top_areas_with_missing_data
\* is empty where there is no such practice and otherwise the one entry
\* 'unassigned' with their number.
C30_OnlyUnassigned ==
  /\ \A i \in 1..Len(results) : results[i].geocode_failed => results[i].area_code = None
  /\ qa_pc = "done" =>
       /\ \A i \in MissingData : results[i].area_code = None
       /\ Len(report.top_areas_with_missing_data) <= 1
       /\ report.top_areas_with_missing_data =
            IF MissingData = {} THEN <<>>
            ELSE << <<S_unassigned, Cardinality(MissingData)>> >>

\* The report after a run that returned three practices: one whose geocode
\* failed although its row gave an area hint, one geocoded without any area,
\* and one with a fine-area key.
C30_Witness ==
  /\ qa_pc = "done"
  /\ Len(results) = 3
  /\ \E i \in 1..3 :
       /\ results[i].geocode_failed
       /\ \E j \in 1..Len(practices_raw) :
            /\ strip(practices_raw[j].practice_id) = results[i].practice_id
            /\ strip(practices_raw[j].practice_name) = results[i].practice_name
            /\ strip(practices_raw[j].area_code) # <<>>
  /\ \E i \in 1..3 : ~results[i].geocode_failed /\ results[i].area_code = None
  /\ \E i \in 1..3 : results[i].area_code = LSOA_NS \o S_E01000001
  /\ report.top_areas_with_missing_data = << <<S_unassigned, 2>> >>

====
